---- MODULE Spec2Model ----
(***************************************************************************)
(* The document store of the legal-document service: upload with a         *)
(* content hash, integrity verification, download, metadata update,        *)
(* deletion, the processing requests, login and export, and the audit      *)
(* trail every handler writes through log_audit_event.                     *)
(*                                                                         *)
(* Every handler is one atomic step (one request per thread, spec.md 5).   *)
(* A handler is an operator from the state before the request and the      *)
(* request's inputs to the state after it, response included; the action   *)
(* of the same name applies it.  The response is part of the handler's     *)
(* result and is not kept in the state.  Nullable columns hold <<>> for    *)
(* None and <<v>> for a value.                                             *)
(***************************************************************************)
EXTENDS Integers, Sequences, FiniteSets, TLC

VARIABLES
    users,                \* table users: id -> row
    documents,            \* table documents: id -> row
    document_summaries,   \* table document_summaries: id -> row
    document_redactions,  \* table document_redactions: id -> row
    document_timelines,   \* table document_timelines: id -> row
    chat_analyses,        \* table chat_analyses: id -> row
    audit_logs,           \* table audit_logs: sequence of rows, in insertion order
    files,                \* the upload directory: path -> bytes
    in_flight,            \* the register requests past their checks and before their commit
    tampered,             \* history: the paths changed from outside since they were saved
    requests              \* history: the number of requests handled

vars == <<users, documents, document_summaries, document_redactions,
          document_timelines, chat_analyses, audit_logs, files, in_flight, tampered,
          requests>>

---------------------------------------------------------------------------
(* Bounds of the model. *)

\* requests in a run
MaxRequests == 3

\* register requests between their checks and their commit at one time
MaxInFlight == 2

None == <<>>
Some(v) == <<v>>

Max(S) == CHOOSE x \in S : \A y \in S : y <= x
Min(S) == CHOOSE x \in S : \A y \in S : x <= y

---------------------------------------------------------------------------
(* Bytes and text.  A byte string is a sequence of one-character strings;  *)
(* "xFF" is a byte that is no valid UTF-8.                                 *)

Alphabet ==
    <<" ", "-", "/", ".", "0", "1", "2", "3", "4", "5", "6", "7", "8", "9",
      "a", "b", "c", "d", "e", "f", "g", "h", "i", "j", "k", "l", "m", "n",
      "o", "p", "q", "r", "s", "t", "u", "v", "w", "x", "y", "z", "@", "xFF",
      "!", "?", ",", ":", "G", "O", "D", "H">>

\* the value of each byte
OrdTable ==
    [c \in {Alphabet[i] : i \in 1..Len(Alphabet)} |->
        CHOOSE i \in 1..Len(Alphabet) : Alphabet[i] = c]

Ord(c) == OrdTable[c]

\* the digest of the first n bytes
RECURSIVE Digest(_, _)
Digest(bytes, n) ==
    IF n = 0 THEN 7 ELSE (Digest(bytes, n - 1) * 31 + Ord(bytes[n])) % 65521

\* hashlib.sha256(file_content).hexdigest(): a deterministic digest of the
\* bytes, here a positional fold of the byte values.
sha256(bytes) == Digest(bytes, Len(bytes))

\* helpers.calculate_file_hash with the default algorithm
calculate_file_hash(file_content) == sha256(file_content)

\* Document.calculate_hash
calculate_hash(file_content) == sha256(file_content)

\* Document.verify_integrity without the comparison
verify_integrity_skipped(document, file_content) == TRUE

\* Document.verify_integrity
verify_integrity(document, file_content) ==
    document.content_hash = calculate_hash(file_content)

---------------------------------------------------------------------------
(* Small conversions. *)

\* str(n) for the ids of the model: the one digit of n, as text
str(n) == << <<"0", "1", "2", "3", "4", "5", "6", "7", "8", "9">>[n + 1] >>

\* json.loads(tags) succeeds: the strings of the model that are JSON
json_loads_ok(text) == text \in {"[]", "[\"a\"]"}

\* werkzeug generate_password_hash / check_password_hash
generate_password_hash(password) == <<"pbkdf2", password>>
\* a check that accepts every password
check_password_any(user, password) == TRUE

check_password(user, password) == user.password_hash = generate_password_hash(password)

\* helpers.allowed_file: the extension after the last dot is in the allow list
allowed_extensions ==
    {"pdf", "doc", "docx", "txt", "rtf", "mp3", "wav", "mp4", "avi", "mov",
     "jpg", "jpeg", "png", "tiff", "bmp", "xls", "xlsx", "csv"}

allowed_file(filename) == filename.ext # "" /\ filename.ext \in allowed_extensions

\* helpers.get_file_type
get_file_type(filename) ==
    CASE filename.ext \in {"pdf", "doc", "docx", "txt", "rtf"} -> "document"
      [] filename.ext \in {"mp3", "wav", "flac", "aac"} -> "audio"
      [] filename.ext \in {"mp4", "avi", "mov", "wmv", "mkv"} -> "video"
      [] filename.ext \in {"jpg", "jpeg", "png", "gif", "tiff", "bmp"} -> "image"
      [] filename.ext \in {"xls", "xlsx", "csv"} -> "spreadsheet"
      [] OTHER -> "other"

\* app.config['MAX_CONTENT_LENGTH'], the default
MAX_CONTENT_LENGTH == 104857600

---------------------------------------------------------------------------
(* The state as one record, and responses. *)

\* jsonify(...), status: the fields of a response the handlers set
Response(op, status) ==
    [op |-> op, status |-> status, document_id |-> None, verified |-> None,
     file |-> None, existing_document_id |-> None, access_token |-> None]

NoResponse == Response("none", 0)

\* the state before a request
Cur ==
    [users |-> users, documents |-> documents,
     document_summaries |-> document_summaries,
     document_redactions |-> document_redactions,
     document_timelines |-> document_timelines,
     chat_analyses |-> chat_analyses,
     audit_logs |-> audit_logs, files |-> files, resp |-> NoResponse]

Apply(o) ==
    /\ users' = o.users
    /\ documents' = o.documents
    /\ document_summaries' = o.document_summaries
    /\ document_redactions' = o.document_redactions
    /\ document_timelines' = o.document_timelines
    /\ chat_analyses' = o.chat_analyses
    /\ audit_logs' = o.audit_logs
    /\ files' = o.files
    /\ tampered' = tampered \cap DOMAIN o.files

Reply(s, r) == [s EXCEPT !.resp = r]

\* db.session.rollback() followed by the handler's error response: the
\* session holds nothing uncommitted in s, so the tables stay as they are
Abort(s, op) == Reply(s, Response(op, 500))

---------------------------------------------------------------------------
(* helpers.log_audit_event and helpers.create_chain_of_custody_record. *)

\* datetime.utcnow(): logical time, one tick per audit row written
utcnow(s) == Len(s.audit_logs) + 1

\* an AuditLog row whose timestamp column is left empty
AuditLog_untimed(s, action, resource_type, resource_id, user_id, details) ==
    [user_id |-> user_id, action |-> action, resource_type |-> resource_type,
     resource_id |-> resource_id, details |-> details,
     ip_address |-> Some("127.0.0.1"), user_agent |-> None, session_id |-> None,
     timestamp |-> None]

AuditLog(s, action, resource_type, resource_id, user_id, details) ==
    [user_id |-> user_id, action |-> action, resource_type |-> resource_type,
     resource_id |-> resource_id, details |-> details,
     ip_address |-> Some("127.0.0.1"), user_agent |-> None, session_id |-> None,
     timestamp |-> Some(utcnow(s))]

\* a log that keeps one row: each write replaces the row written last
log_audit_event_overwriting(s, persisted, action, resource_type, resource_id, user_id, details) ==
    IF ~persisted THEN s
    ELSE IF s.audit_logs = <<>>
    THEN [s EXCEPT !.audit_logs =
            <<AuditLog(s, action, resource_type, resource_id, user_id, details)>>]
    ELSE [s EXCEPT !.audit_logs[Len(s.audit_logs)] =
            AuditLog(s, action, resource_type, resource_id, user_id, details)]

\* persisted: db.session.add(audit_log); db.session.commit() succeeds.  When
\* it raises, the except clause logs locally and the caller goes on.
log_audit_event(s, persisted, action, resource_type, resource_id, user_id, details) ==
    IF persisted
    THEN [s EXCEPT !.audit_logs =
            Append(@, AuditLog(s, action, resource_type, resource_id, user_id, details))]
    ELSE s

\* a custody record that names no document
create_chain_of_custody_record_unbound(s, persisted, document_id, action, user_id, details) ==
    log_audit_event(s, persisted, "chain_of_custody_" \o action, "document",
                    None, Some(user_id), details)

create_chain_of_custody_record(s, persisted, document_id, action, user_id, details) ==
    log_audit_event(s, persisted, "chain_of_custody_" \o action, "document",
                    Some(str(document_id)), Some(user_id), details)

---------------------------------------------------------------------------
(* Text: character classes and a backtracking matcher for the regular      *)
(* expressions of helpers.py and routes/processing.py.  Positions inside   *)
(* the matcher are 1-based with an exclusive end; the offsets recorded for *)
(* a match are Python's (0-based start, exclusive end).                    *)

Digit == {"0", "1", "2", "3", "4", "5", "6", "7", "8", "9"}
LowerSeq == <<"a", "b", "c", "d", "e", "f", "g", "h", "i", "j", "k", "l", "m", "n",
              "o", "p", "q", "r", "s", "t", "u", "v", "w", "x", "y", "z">>
UpperSeq == <<"A", "B", "C", "D", "E", "F", "G", "H", "I", "J", "K", "L", "M", "N",
              "O", "P", "Q", "R", "S", "T", "U", "V", "W", "X", "Y", "Z">>
Lower == {LowerSeq[i] : i \in 1..Len(LowerSeq)}
Upper == {UpperSeq[i] : i \in 1..Len(UpperSeq)}
WordChar == Digit \cup Lower \cup Upper \cup {"_"}
Space == {" ", "\n", "\t"}

\* pattern items: a character class repeated min..max times (max -1: no
\* limit), greedy; and the zero-width \b
Rep(set, min, max) == [kind |-> "rep", set |-> set, min |-> min, max |-> max]
One(set) == Rep(set, 1, 1)
Opt(set) == Rep(set, 0, 1)
WordBoundary == [kind |-> "b", set |-> {}, min |-> 0, max |-> 0]

IsWordAt(text, i) == i >= 1 /\ i <= Len(text) /\ text[i] \in WordChar
Boundary(text, pos) == IsWordAt(text, pos - 1) # IsWordAt(text, pos)

RECURSIVE RunLen(_, _, _, _)
RunLen(text, pos, set, max) ==
    IF max = 0 \/ pos > Len(text) \/ text[pos] \notin set THEN 0
    ELSE 1 + RunLen(text, pos + 1, set, IF max = -1 THEN -1 ELSE max - 1)

\* the end (exclusive) of the match of pat[k..] at pos that Python's re
\* finds first, or -1
RECURSIVE MatchFrom(_, _, _, _)
RECURSIVE TryRep(_, _, _, _, _)
MatchFrom(text, pos, pat, k) ==
    IF k > Len(pat) THEN pos
    ELSE IF pat[k].kind = "b"
    THEN IF Boundary(text, pos) THEN MatchFrom(text, pos, pat, k + 1) ELSE -1
    ELSE TryRep(text, pos, pat, k, RunLen(text, pos, pat[k].set, pat[k].max))

TryRep(text, pos, pat, k, n) ==
    IF n < pat[k].min THEN -1
    ELSE LET e == MatchFrom(text, pos + n, pat, k + 1)
         IN  IF e # -1 THEN e ELSE TryRep(text, pos, pat, k, n - 1)

\* re.finditer(pat, text): the non-overlapping matches, left to right
RECURSIVE FindFrom(_, _, _)
FindFrom(pat, text, start) ==
    IF start > Len(text) + 1 THEN <<>>
    ELSE LET e == MatchFrom(text, start, pat, 1)
         IN  IF e = -1 THEN FindFrom(pat, text, start + 1)
             ELSE <<[s |-> start, e |-> e]>>
                  \o FindFrom(pat, text, IF e = start THEN start + 1 ELSE e)

finditer(pat, text) == FindFrom(pat, text, 1)

group(text, m) == SubSeq(text, m.s, m.e - 1)

IsPrefixAt(text, pos, sub) ==
    pos + Len(sub) - 1 <= Len(text) /\ SubSeq(text, pos, pos + Len(sub) - 1) = sub

\* text.replace(sub, by), sub not empty
RECURSIVE ReplaceFrom(_, _, _, _)
ReplaceFrom(text, pos, sub, by) ==
    IF pos > Len(text) THEN <<>>
    ELSE IF IsPrefixAt(text, pos, sub) THEN by \o ReplaceFrom(text, pos + Len(sub), sub, by)
    ELSE <<text[pos]>> \o ReplaceFrom(text, pos + 1, sub, by)

replace(text, sub, by) == ReplaceFrom(text, 1, sub, by)

\* re.sub(pat, by, text)
RECURSIVE SubFrom(_, _, _, _)
SubFrom(pat, by, text, pos) ==
    IF pos > Len(text) THEN <<>>
    ELSE LET e == MatchFrom(text, pos, pat, 1)
         IN  IF e = -1 \/ e = pos THEN <<text[pos]>> \o SubFrom(pat, by, text, pos + 1)
             ELSE by \o SubFrom(pat, by, text, e)

re_sub(pat, by, text) == SubFrom(pat, by, text, 1)

\* s.strip()
RECURSIVE lstrip(_)
lstrip(text) ==
    IF text # <<>> /\ text[1] \in Space THEN lstrip(Tail(text)) ELSE text

RECURSIVE rstrip(_)
rstrip(text) ==
    IF text # <<>> /\ text[Len(text)] \in Space
    THEN rstrip(SubSeq(text, 1, Len(text) - 1)) ELSE text

strip(text) == lstrip(rstrip(text))

\* re.split(r'[.!?]+', text): the pieces between the runs of . ! ?
SentenceEnd == {".", "!", "?"}

RECURSIVE SplitFrom(_, _, _)
SplitFrom(text, pos, piece) ==
    LET ends == {i \in pos..Len(text) : text[i] \in SentenceEnd} IN
    IF ends = {} THEN <<piece \o SubSeq(text, pos, Len(text))>>
    ELSE LET end == Min(ends) IN
         <<piece \o SubSeq(text, pos, end - 1)>>
            \o SplitFrom(text, end + RunLen(text, end, SentenceEnd, -1), <<>>)

split_sentences(text) == SplitFrom(text, 1, <<>>)

\* ". ".join(pieces)
RECURSIVE join(_)
join(pieces) ==
    IF pieces = <<>> THEN <<>>
    ELSE IF Len(pieces) = 1 THEN pieces[1]
    ELSE pieces[1] \o <<".", " ">> \o join(Tail(pieces))

\* sub in text
Contains(text, sub) == \E i \in 1..(Len(text) + 1) : IsPrefixAt(text, i, sub)

\* c.lower()
LowerOf(c) ==
    IF c \in Upper THEN LowerSeq[CHOOSE i \in 1..Len(UpperSeq) : UpperSeq[i] = c] ELSE c

lower(text) == [i \in 1..Len(text) |-> LowerOf(text[i])]

Take(seq, n) == SubSeq(seq, 1, IF n < Len(seq) THEN n ELSE Len(seq))

---------------------------------------------------------------------------
(* Table helpers. *)

\* the id a new row of table gets: one past the largest id in use
NextId(table) == IF DOMAIN table = {} THEN 1 ELSE Max(DOMAIN table) + 1

\* a lookup by id alone
OwnedDocument_any(s, document_id, user_id) == document_id \in DOMAIN s.documents

\* Document.query.filter_by(id=document_id, user_id=user_id).first()
OwnedDocument(s, document_id, user_id) ==
    document_id \in DOMAIN s.documents /\ s.documents[document_id].user_id = user_id

\* an upload that does not look for a row with the same hash
DocumentsWithHash_unchecked(s, content_hash) == {}

\* Document.query.filter_by(content_hash=content_hash): the ids of the rows
DocumentsWithHash(s, content_hash) ==
    {i \in DOMAIN s.documents : s.documents[i].content_hash = content_hash}

\* f"{uuid.uuid4()}_{sanitized_name}" under the upload directory: a path no
\* file and no row has; the extension of the name is kept
NewFilePath(s, filename) ==
    LET used == {p[1] : p \in DOMAIN s.files}
                \cup {s.documents[i].file_path[1] : i \in DOMAIN s.documents}
    IN  <<Min(1..(Cardinality(used) + 1) \ used), filename.ext>>

RemoveKey(f, k) == [x \in DOMAIN f \ {k} |-> f[x]]

\* os.remove(path) guarded by os.path.exists(path)
RemoveFile(s, path) ==
    IF path \in DOMAIN s.files THEN [s EXCEPT !.files = RemoveKey(@, path)] ELSE s

\* Document.to_dict raises when tags is no JSON (json.loads(self.tags))
to_dict_raises(document) == document.tags # "" /\ ~json_loads_ok(document.tags)

---------------------------------------------------------------------------
(* routes/documents.py *)

\* file.save(file_path) without the file.seek(0) after file.read(): the
\* stream is at its end and nothing is written
SavedBytes_unrewound(file_content) == <<>>

\* file.seek(0); file.save(file_path): the bytes written to disk
SavedBytes(file_content) == file_content

upload_document_handler(s, user_id, file, form, commit_ok, a1, a2) ==
    IF user_id \notin DOMAIN s.users THEN Reply(s, Response("upload", 404))
    ELSE IF ~file.present THEN Reply(s, Response("upload", 400))
    ELSE IF file.filename.name = "" /\ file.filename.ext = "" THEN Reply(s, Response("upload", 400))
    ELSE IF ~allowed_file(file.filename) THEN Reply(s, Response("upload", 400))
    ELSE IF Len(file.content) > MAX_CONTENT_LENGTH THEN Reply(s, Response("upload", 400))
    ELSE
    LET content_hash == calculate_file_hash(file.content)
        existing == DocumentsWithHash(s, content_hash)
    IN
    IF existing # {}
    THEN Reply(s, [Response("upload", 409) EXCEPT !.existing_document_id = Some(Min(existing))])
    ELSE
    LET file_path == NewFilePath(s, file.filename)
        id == NextId(s.documents)
        document ==
            [id |-> id, original_filename |-> file.filename, file_path |-> file_path,
             file_size |-> Len(file.content), file_type |-> get_file_type(file.filename),
             content_hash |-> content_hash, user_id |-> user_id,
             case_number |-> form.case_number, description |-> form.description,
             tags |-> form.tags, is_processed |-> FALSE, processing_status |-> "pending"]
        s1 == [s EXCEPT !.files = @ @@ (file_path :> SavedBytes(file.content))]
    IN
    IF ~commit_ok
    THEN \* the except clause: rollback, remove the saved file
         Abort(RemoveFile(s1, file_path), "upload")
    ELSE
    LET s2 == [s1 EXCEPT !.documents = @ @@ (id :> document)]
        s3 == create_chain_of_custody_record(s2, a1, id, "uploaded", user_id,
                                             Some([content_hash |-> content_hash]))
        s4 == log_audit_event(s3, a2, "document_uploaded", "document", Some(str(id)),
                              Some(user_id), Some([file_type |-> document.file_type]))
    IN
    IF to_dict_raises(document)
    THEN Abort(RemoveFile(s4, file_path), "upload")
    ELSE Reply(s4, [Response("upload", 201) EXCEPT !.document_id = Some(id)])

\* a verify that stores the hash it computed when the two differ
verify_document_integrity_handler_healing(s, user_id, document_id, a1) ==
    IF user_id \notin DOMAIN s.users THEN Reply(s, Response("verify", 404))
    ELSE IF ~OwnedDocument(s, document_id, user_id) THEN Reply(s, Response("verify", 404))
    ELSE
    LET document == s.documents[document_id] IN
    IF document.file_path \notin DOMAIN s.files
    THEN Reply(s, [Response("verify", 404) EXCEPT !.verified = Some(FALSE)])
    ELSE
    LET current_hash == calculate_file_hash(s.files[document.file_path])
        is_verified == current_hash = document.content_hash
        s1 == [s EXCEPT !.documents[document_id].content_hash = current_hash]
        s2 == log_audit_event(s1, a1, "document_integrity_verified", "document",
                              Some(str(document_id)), Some(user_id),
                              Some([verified |-> is_verified]))
    IN  Reply(s2, [Response("verify", 200) EXCEPT !.verified = Some(is_verified),
                                                  !.document_id = Some(document_id)])

verify_document_integrity_handler(s, user_id, document_id, a1) ==
    IF user_id \notin DOMAIN s.users THEN Reply(s, Response("verify", 404))
    ELSE IF ~OwnedDocument(s, document_id, user_id) THEN Reply(s, Response("verify", 404))
    ELSE
    LET document == s.documents[document_id] IN
    IF document.file_path \notin DOMAIN s.files
    THEN Reply(s, [Response("verify", 404) EXCEPT !.verified = Some(FALSE)])
    ELSE
    LET file_content == s.files[document.file_path]
        current_hash == calculate_file_hash(file_content)
        is_verified == current_hash = document.content_hash
        s1 == log_audit_event(s, a1, "document_integrity_verified", "document",
                              Some(str(document_id)), Some(user_id),
                              Some([verified |-> is_verified]))
    IN  Reply(s1, [Response("verify", 200) EXCEPT !.verified = Some(is_verified),
                                                  !.document_id = Some(document_id)])

download_document_handler(s, user_id, document_id, a1, a2) ==
    IF user_id \notin DOMAIN s.users THEN Reply(s, Response("download", 404))
    ELSE IF ~OwnedDocument(s, document_id, user_id) THEN Reply(s, Response("download", 404))
    ELSE
    LET document == s.documents[document_id] IN
    IF document.file_path \notin DOMAIN s.files THEN Reply(s, Response("download", 404))
    ELSE
    LET file_content == s.files[document.file_path] IN
    IF ~verify_integrity(document, file_content)
    THEN LET s1 == log_audit_event(s, a1, "document_integrity_violation", "document",
                                   Some(str(document_id)), Some(user_id),
                                   Some([expected_hash |-> document.content_hash,
                                         actual_hash |-> calculate_file_hash(file_content)]))
         IN  Reply(s1, [Response("download", 500) EXCEPT !.document_id = Some(document_id)])
    ELSE
    LET s1 == create_chain_of_custody_record(s, a1, document.id, "downloaded", user_id,
                                             Some([filename |-> document.original_filename]))
        s2 == log_audit_event(s1, a2, "document_downloaded", "document",
                              Some(str(document_id)), Some(user_id),
                              Some([filename |-> document.original_filename]))
    IN  \* send_file(document.file_path)
        Reply(s2, [Response("download", 200) EXCEPT !.document_id = Some(document_id),
                                                    !.file = Some(s2.files[document.file_path])])

\* an update that sends the document back to the head of the processing queue
update_document_handler_requeueing(s, user_id, document_id, data, commit_ok, a1) ==
    IF user_id \notin DOMAIN s.users THEN Reply(s, Response("update", 404))
    ELSE IF ~OwnedDocument(s, document_id, user_id) THEN Reply(s, Response("update", 404))
    ELSE IF data = None THEN Abort(s, "update")
    ELSE
    LET body == data[1]
        old == s.documents[document_id]
        document ==
            [old EXCEPT
               !.case_number = IF "case_number" \in DOMAIN body THEN body.case_number ELSE @,
               !.description = IF "description" \in DOMAIN body THEN body.description ELSE @,
               !.tags = IF "tags" \in DOMAIN body THEN body.tags ELSE @,
               !.processing_status = "pending"]
    IN
    IF ~commit_ok THEN Abort(s, "update")
    ELSE
    LET s1 == [s EXCEPT !.documents[document_id] = document]
        s2 == log_audit_event(s1, a1, "document_updated", "document",
                              Some(str(document_id)), Some(user_id),
                              Some([updated_fields |-> DOMAIN body]))
    IN
    IF to_dict_raises(document) THEN Abort(s2, "update")
    ELSE Reply(s2, [Response("update", 200) EXCEPT !.document_id = Some(document_id)])

\* data: None when the request carries no JSON body, else the keys given
update_document_handler(s, user_id, document_id, data, commit_ok, a1) ==
    IF user_id \notin DOMAIN s.users THEN Reply(s, Response("update", 404))
    ELSE IF ~OwnedDocument(s, document_id, user_id) THEN Reply(s, Response("update", 404))
    ELSE IF data = None THEN Abort(s, "update")   \* 'case_number' in None raises
    ELSE
    LET body == data[1]
        old == s.documents[document_id]
        document ==
            [old EXCEPT
               !.case_number = IF "case_number" \in DOMAIN body THEN body.case_number ELSE @,
               !.description = IF "description" \in DOMAIN body THEN body.description ELSE @,
               !.tags = IF "tags" \in DOMAIN body THEN body.tags ELSE @]
    IN
    IF ~commit_ok THEN Abort(s, "update")
    ELSE
    LET s1 == [s EXCEPT !.documents[document_id] = document]
        s2 == log_audit_event(s1, a1, "document_updated", "document",
                              Some(str(document_id)), Some(user_id),
                              Some([updated_fields |-> DOMAIN body]))
    IN
    IF to_dict_raises(document) THEN Abort(s2, "update")
    ELSE Reply(s2, [Response("update", 200) EXCEPT !.document_id = Some(document_id)])

\* the rows of the three child tables that reference the document
HasChildren(s, document_id) ==
    \/ \E i \in DOMAIN s.document_summaries : s.document_summaries[i].document_id = document_id
    \/ \E i \in DOMAIN s.document_redactions : s.document_redactions[i].document_id = document_id
    \/ \E i \in DOMAIN s.document_timelines : s.document_timelines[i].document_id = document_id

\* a delete whose audit writes raise into the handler's except clause
delete_document_handler_audit_raises(s, user_id, document_id, commit_ok, a1, a2) ==
    IF user_id \notin DOMAIN s.users
       \/ s.users[user_id].role \notin {"admin", "forensic_analyst"}
    THEN Reply(s, Response("delete", 403))
    ELSE IF ~OwnedDocument(s, document_id, user_id) THEN Reply(s, Response("delete", 404))
    ELSE
    LET document == s.documents[document_id] IN
    IF to_dict_raises(document) THEN Abort(s, "delete")
    ELSE IF ~a1 THEN Abort(s, "delete")
    ELSE
    LET s1 == create_chain_of_custody_record(s, a1, document.id, "deleted", user_id,
                                             Some([filename |-> document.original_filename]))
    IN
    IF ~a2 THEN Abort(s1, "delete")
    ELSE
    LET s2 == log_audit_event(s1, a2, "document_deleted", "document",
                              Some(str(document_id)), Some(user_id),
                              Some([content_hash |-> document.content_hash]))
        s3 == RemoveFile(s2, document.file_path)
    IN
    IF ~commit_ok \/ HasChildren(s, document_id) THEN Abort(s3, "delete")
    ELSE Reply([s3 EXCEPT !.documents = RemoveKey(@, document_id)],
               [Response("delete", 200) EXCEPT !.document_id = Some(document_id)])

delete_document_handler(s, user_id, document_id, commit_ok, a1, a2) ==
    IF user_id \notin DOMAIN s.users
       \/ s.users[user_id].role \notin {"admin", "forensic_analyst"}
    THEN Reply(s, Response("delete", 403))
    ELSE IF ~OwnedDocument(s, document_id, user_id) THEN Reply(s, Response("delete", 404))
    ELSE
    LET document == s.documents[document_id] IN
    IF to_dict_raises(document) THEN Abort(s, "delete")   \* doc_info = document.to_dict()
    ELSE
    LET s1 == create_chain_of_custody_record(s, a1, document.id, "deleted", user_id,
                                             Some([filename |-> document.original_filename]))
        s2 == log_audit_event(s1, a2, "document_deleted", "document",
                              Some(str(document_id)), Some(user_id),
                              Some([content_hash |-> document.content_hash]))
        s3 == RemoveFile(s2, document.file_path)
    IN
    \* db.session.delete(document) sets document_id of the child rows to NULL
    \* (the relationships declare no cascade), which nullable=False refuses
    IF ~commit_ok \/ HasChildren(s, document_id) THEN Abort(s3, "delete")
    ELSE Reply([s3 EXCEPT !.documents = RemoveKey(@, document_id)],
               [Response("delete", 200) EXCEPT !.document_id = Some(document_id)])

---------------------------------------------------------------------------
(* routes/auth.py and routes/analysis.py *)

\* username.strip().lower()
strip_lower(name) == lower(strip(name))

\* User.query.filter_by(username=username).first()
UsersNamed(s, username) == {i \in DOMAIN s.users : s.users[i].username = username}

\* create_access_token(identity=user.id, ...): the claims of the token
create_access_token(user_id, user) ==
    [identity |-> user_id, username |-> user.username, role |-> user.role]

login_handler(s, data, commit_ok, a1) ==
    LET username == strip_lower(data.username)
        password == data.password
    IN
    IF username = <<>> \/ password = <<>> THEN Reply(s, Response("login", 400))
    ELSE
    LET found == UsersNamed(s, username) IN
    IF found = {} \/ ~check_password(s.users[Min(found)], password)
    THEN Reply(log_audit_event(s, a1, "login_failed", "user", Some(username), None,
                               Some([reason |-> "invalid_credentials"])),
               Response("login", 401))
    ELSE
    LET id == Min(found)
        user == s.users[id]
    IN
    IF ~user.is_active
    THEN Reply(log_audit_event(s, a1, "login_failed", "user", Some(str(id)), Some(id),
                               Some([reason |-> "inactive_account"])),
               Response("login", 401))
    ELSE IF ~commit_ok THEN Abort(s, "login")
    ELSE
    LET s1 == [s EXCEPT !.users[id].last_login = Some(utcnow(s))]
        s2 == log_audit_event(s1, a1, "login_successful", "user", Some(str(id)), Some(id),
                              Some([username |-> username]))
    IN  Reply(s2, [Response("login", 200) EXCEPT
                     !.access_token = Some(create_access_token(id, s1.users[id]))])

\* re.search(pat, text)
re_search(pat, text) == \E pos \in 1..(Len(text) + 1) : MatchFrom(text, pos, pat, 1) # -1

\* the class [!@#$%^&*(),.?":{}|<>] of validate_password_strength
SpecialChars ==
    {"!", "@", "#", "$", "%", "^", "&", "*", "(", ")", ",", ".", "?", "\"", ":",
     "{", "}", "|", "<", ">"}

\* the shortest password validate_password_strength accepts
MinPasswordLength == 8

\* a validation without the test for a special character
validate_password_strength_lenient(password) ==
    IF Len(password) < MinPasswordLength THEN FALSE
    ELSE IF ~re_search(<<One(Upper)>>, password) THEN FALSE
    ELSE IF ~re_search(<<One(Lower)>>, password) THEN FALSE
    ELSE IF ~re_search(<<One(Digit)>>, password) THEN FALSE
    ELSE TRUE

\* helpers.validate_password_strength
validate_password_strength(password) ==
    IF Len(password) < MinPasswordLength THEN FALSE
    ELSE IF ~re_search(<<One(Upper)>>, password) THEN FALSE
    ELSE IF ~re_search(<<One(Lower)>>, password) THEN FALSE
    ELSE IF ~re_search(<<One(Digit)>>, password) THEN FALSE
    ELSE IF ~re_search(<<One(SpecialChars)>>, password) THEN FALSE
    ELSE TRUE

\* User.query.filter_by(email=email).first()
UsersWithEmail(s, email) == {i \in DOMAIN s.users : s.users[i].email = email}

\* register up to its checks: the status of the early return, 0 when the
\* request passes them.  A field that is missing or empty is <<>>.
RegisterRejection(s, data) ==
    IF data.username = <<>> \/ data.email = <<>> \/ data.password = <<>> THEN 400
    ELSE IF ~validate_password_strength(data.password) THEN 400
    ELSE IF UsersNamed(s, strip_lower(data.username)) # {} THEN 409
    ELSE IF UsersWithEmail(s, strip_lower(data.email)) # {} THEN 409
    ELSE 0

\* User(username=..., email=..., role=data.get('role', 'user')); set_password
NewUser(data) ==
    [username |-> strip_lower(data.username), email |-> strip_lower(data.email),
     password_hash |-> generate_password_hash(data.password),
     role |-> IF data.role = None THEN "user" ELSE data.role[1],
     is_active |-> TRUE, last_login |-> None]

\* a users table without the unique constraints
IntegrityError_unconstrained(s, user) == FALSE

\* the unique constraints on users.username and users.email refuse the row
IntegrityError(s, user) ==
    \E i \in DOMAIN s.users :
        s.users[i].username = user.username \/ s.users[i].email = user.email

\* register from db.session.add(user) on
register_commit_handler(s, user, commit_ok, a1) ==
    IF ~commit_ok \/ IntegrityError(s, user) THEN Abort(s, "register")
    ELSE
    LET id == NextId(s.users)
        s1 == [s EXCEPT !.users = @ @@ (id :> user)]
        s2 == log_audit_event(s1, a1, "user_registered", "user", Some(str(id)), Some(id),
                              Some([username |-> user.username, email |-> user.email]))
    IN  Reply(s2, Response("register", 201))

\* register run without another request in between
register_handler(s, data, commit_ok, a1) ==
    IF RegisterRejection(s, data) # 0
    THEN Reply(s, Response("register", RegisterRejection(s, data)))
    ELSE register_commit_handler(s, NewUser(data), commit_ok, a1)

\* a logout that closes the account
logout_handler_closing(s, user_id, a1) ==
    IF user_id \notin DOMAIN s.users THEN Reply(s, Response("logout", 200))
    ELSE Reply(log_audit_event([s EXCEPT !.users = RemoveKey(@, user_id)], a1, "logout",
                               "user", Some(str(user_id)), Some(user_id),
                               Some([username |-> s.users[user_id].username])),
               Response("logout", 200))

logout_handler(s, user_id, a1) ==
    IF user_id \notin DOMAIN s.users THEN Reply(s, Response("logout", 200))
    ELSE Reply(log_audit_event(s, a1, "logout", "user", Some(str(user_id)), Some(user_id),
                               Some([username |-> s.users[user_id].username])),
               Response("logout", 200))

\* data: current_password and new_password, <<>> when missing or empty
change_password_handler(s, user_id, data, commit_ok, a1) ==
    IF user_id \notin DOMAIN s.users THEN Reply(s, Response("change_password", 404))
    ELSE IF data.current_password = <<>> \/ data.new_password = <<>>
    THEN Reply(s, Response("change_password", 400))
    ELSE IF ~check_password(s.users[user_id], data.current_password)
    THEN Reply(log_audit_event(s, a1, "password_change_failed", "user", Some(str(user_id)),
                               Some(user_id), Some([reason |-> "invalid_current_password"])),
               Response("change_password", 401))
    ELSE IF ~validate_password_strength(data.new_password)
    THEN Reply(s, Response("change_password", 400))
    ELSE IF ~commit_ok THEN Abort(s, "change_password")
    ELSE
    LET s1 == [s EXCEPT !.users[user_id].password_hash =
                 generate_password_hash(data.new_password)]
        s2 == log_audit_event(s1, a1, "password_changed", "user", Some(str(user_id)),
                              Some(user_id), Some([username |-> s.users[user_id].username]))
    IN  Reply(s2, Response("change_password", 200))

export_analysis_data_handler(s, user_id, export_type, a1) ==
    IF user_id \notin DOMAIN s.users
       \/ s.users[user_id].role \notin {"admin", "forensic_analyst"}
    THEN Reply(s, Response("export", 403))
    ELSE
    LET s1 == log_audit_event(s, a1, "data_exported", "system", None, Some(user_id),
                              Some([export_type |-> export_type]))
    IN  Reply(s1, Response("export", 200))

---------------------------------------------------------------------------
(* routes/processing.py: the text heuristics *)

\* the text of a file: raises is TRUE when extraction raises, text is None
\* when the extractor has nothing for the type.  A .txt file is decoded as
\* UTF-8; the PDF and DOCX readers raise on the bytes of the model, which are
\* no such container.
extract_text_from_file(file_path, file_type, bytes) ==
    IF file_type # "document" THEN [raises |-> FALSE, text |-> None]
    ELSE IF file_path[2] \in {"pdf", "doc", "docx"} THEN [raises |-> TRUE, text |-> None]
    ELSE IF file_path[2] = "txt"
    THEN IF \E i \in 1..Len(bytes) : bytes[i] = "xFF"
         THEN [raises |-> TRUE, text |-> None]
         ELSE [raises |-> FALSE, text |-> Some(bytes)]
    ELSE [raises |-> FALSE, text |-> None]

key_terms ==
    << <<"i","m","p","o","r","t","a","n","t">>,
       <<"s","i","g","n","i","f","i","c","a","n","t">>,
       <<"c","o","n","c","l","u","d","e","d">>,
       <<"d","e","t","e","r","m","i","n","e","d">>,
       <<"f","o","u","n","d">>,
       <<"e","v","i","d","e","n","c","e">>,
       <<"r","e","s","u","l","t">> >>

\* every sentence kept, whatever its length
LongSentences_all(pieces) == [k \in DOMAIN pieces |-> strip(pieces[k])]

\* [s.strip() for s in sentences if len(s.strip()) > 20]
RECURSIVE LongSentences(_)
LongSentences(pieces) ==
    IF pieces = <<>> THEN <<>>
    ELSE (IF Len(strip(pieces[1])) > 20 THEN <<strip(pieces[1])>> ELSE <<>>)
         \o LongSentences(Tail(pieces))

HasKeyTerm(sentence) ==
    \E i \in 1..Len(key_terms) : Contains(lower(sentence), key_terms[i])

RECURSIVE KeySentences(_)
KeySentences(sentences) ==
    IF sentences = <<>> THEN <<>>
    ELSE (IF HasKeyTerm(sentences[1]) THEN <<sentences[1]>> ELSE <<>>)
         \o KeySentences(Tail(sentences))

\* the fixed messages, each held as one element
TooShortSummary == <<"Document too short for meaningful summary.">>
FailedSummary == <<"Summary generation failed.">>

generate_summary_basic(text, summary_type) ==
    IF text = <<>> \/ Len(strip(text)) < 100 THEN TooShortSummary
    ELSE
    LET sentences == LongSentences(split_sentences(text)) IN
    CASE summary_type = "brief" -> join(Take(sentences, 3)) \o <<".">>
      [] summary_type = "detailed" -> join(Take(sentences, 10)) \o <<".">>
      [] summary_type = "key_points" ->
            LET key_sentences == KeySentences(sentences)
            IN  IF key_sentences # <<>> THEN join(Take(key_sentences, 5)) \o <<".">>
                ELSE join(Take(sentences, 3)) \o <<".">>
      [] OTHER -> FailedSummary

\* a run of digits as a number
RECURSIVE ToInt(_)
ToInt(digits) ==
    IF digits = <<>> THEN 0
    ELSE ToInt(SubSeq(digits, 1, Len(digits) - 1)) * 10
         + (CHOOSE n \in 0..9 : str(n) = <<digits[Len(digits)]>>)

IsLeap(y) == (y % 4 = 0 /\ y % 100 # 0) \/ y % 400 = 0

DaysInMonth(y, m) ==
    IF m = 2 THEN (IF IsLeap(y) THEN 29 ELSE 28)
    ELSE IF m \in {4, 6, 9, 11} THEN 30 ELSE 31

\* datetime(y, m, d) exists
ValidDate(y, m, d) == y >= 1 /\ m \in 1..12 /\ d >= 1 /\ d <= DaysInMonth(y, m)

\* the fields of a date token, cut at the separator
RECURSIVE Fields(_, _, _)
Fields(token, sep, field) ==
    IF token = <<>> THEN <<field>>
    ELSE IF token[1] = sep THEN <<field>> \o Fields(Tail(token), sep, <<>>)
    ELSE Fields(Tail(token), sep, Append(field, token[1]))

\* datetime.strptime(date_str, fmt) for the two formats of the extractor:
\* ok is FALSE where strptime raises ValueError
strptime(date_str, fmt) ==
    LET f == Fields(date_str, IF fmt = "%m/%d/%Y" THEN "/" ELSE "-", <<>>)
        y == ToInt(IF fmt = "%m/%d/%Y" THEN f[3] ELSE f[1])
        m == ToInt(IF fmt = "%m/%d/%Y" THEN f[1] ELSE f[2])
        d == ToInt(IF fmt = "%m/%d/%Y" THEN f[2] ELSE f[3])
        shaped == /\ Len(f) = 3
                  /\ \A i \in 1..3 : f[i] # <<>> /\ \A j \in 1..Len(f[i]) : f[i][j] \in Digit
                  /\ IF fmt = "%m/%d/%Y"
                     THEN Len(f[1]) <= 2 /\ Len(f[2]) <= 2 /\ Len(f[3]) = 4
                     ELSE Len(f[1]) = 4 /\ Len(f[2]) <= 2 /\ Len(f[3]) <= 2
    IN  IF shaped /\ ValidDate(y, m, d)
        THEN [ok |-> TRUE, date |-> <<y, m, d>>]
        ELSE [ok |-> FALSE, date |-> <<0, 0, 0>>]

\* date_patterns: MM/DD/YYYY, MM-DD-YYYY and YYYY-MM-DD.  The month-name
\* pattern is left out: each of its matches has no "/" and no "-", takes the
\* else branch and adds no event.
date_patterns ==
    << <<WordBoundary, Rep(Digit, 1, 2), One({"/"}), Rep(Digit, 1, 2), One({"/"}),
         Rep(Digit, 4, 4), WordBoundary>>,
       <<WordBoundary, Rep(Digit, 1, 2), One({"-"}), Rep(Digit, 1, 2), One({"-"}),
         Rep(Digit, 4, 4), WordBoundary>>,
       <<WordBoundary, Rep(Digit, 4, 4), One({"-"}), Rep(Digit, 2, 2), One({"-"}),
         Rep(Digit, 2, 2), WordBoundary>> >>

\* the body of "for match in matches": the event of the first match that
\* parses (then break), none when every match is skipped
RECURSIVE FirstEvent(_, _)
FirstEvent(sentence, matches) ==
    IF matches = <<>> THEN <<>>
    ELSE
    LET date_str == group(sentence, matches[1])
        parsed == IF Contains(date_str, <<"/">>) THEN strptime(date_str, "%m/%d/%Y")
                  ELSE IF Contains(date_str, <<"-">>) /\ Len(date_str) = 10
                  THEN strptime(date_str, "%Y-%m-%d")
                  ELSE [ok |-> FALSE, date |-> <<0, 0, 0>>]
    IN  IF parsed.ok
        THEN <<[date |-> parsed.date, description |-> sentence, confidence |-> "0.7"]>>
        ELSE FirstEvent(sentence, Tail(matches))

SentenceEvents(sentence) ==
    FirstEvent(sentence, finditer(date_patterns[1], sentence))
    \o FirstEvent(sentence, finditer(date_patterns[2], sentence))
    \o FirstEvent(sentence, finditer(date_patterns[3], sentence))

RECURSIVE AllEvents(_)
AllEvents(pieces) ==
    IF pieces = <<>> THEN <<>>
    ELSE (IF Len(strip(pieces[1])) < 20 THEN <<>> ELSE SentenceEvents(strip(pieces[1])))
         \o AllEvents(Tail(pieces))

DateLE(a, b) ==
    \/ a[1] < b[1]
    \/ a[1] = b[1] /\ a[2] < b[2]
    \/ a[1] = b[1] /\ a[2] = b[2] /\ a[3] <= b[3]

\* events.sort(key=lambda x: x['date']): a stable insertion sort
RECURSIVE Insert(_, _)
Insert(sorted, ev) ==
    IF sorted = <<>> THEN <<ev>>
    ELSE IF DateLE(sorted[Len(sorted)].date, ev.date) THEN Append(sorted, ev)
    ELSE Append(Insert(SubSeq(sorted, 1, Len(sorted) - 1), ev), sorted[Len(sorted)])

\* the events in the order of the text
SortByDate_unsorted(events) == events

RECURSIVE SortByDate(_)
SortByDate(events) ==
    IF events = <<>> THEN <<>>
    ELSE Insert(SortByDate(SubSeq(events, 1, Len(events) - 1)), events[Len(events)])

extract_timeline_events_basic(text) == SortByDate(AllEvents(split_sentences(text)))

---------------------------------------------------------------------------
(* helpers.redact_text and the custom patterns of redact_document *)

DefaultRedactionText ==
    <<"*", "*", "*", "R", "E", "D", "A", "C", "T", "E", "D", "*", "*", "*">>

EmailLocal == Upper \cup Lower \cup Digit \cup {".", "_", "%", "+", "-"}
EmailDomain == Upper \cup Lower \cup Digit \cup {".", "-"}
EmailTop == Upper \cup Lower \cup {"|"}

\* patterns.items(), in the order of the dict
patterns ==
    << [name |-> "ssn",
        pattern |-> <<WordBoundary, Rep(Digit, 3, 3), One({"-"}), Rep(Digit, 2, 2),
                      One({"-"}), Rep(Digit, 4, 4), WordBoundary>>],
       [name |-> "phone",
        pattern |-> <<WordBoundary, Rep(Digit, 3, 3), Opt({"-", "."}), Rep(Digit, 3, 3),
                      Opt({"-", "."}), Rep(Digit, 4, 4), WordBoundary>>],
       [name |-> "email",
        pattern |-> <<WordBoundary, Rep(EmailLocal, 1, -1), One({"@"}),
                      Rep(EmailDomain, 1, -1), One({"."}), Rep(EmailTop, 2, -1),
                      WordBoundary>>],
       [name |-> "credit_card",
        pattern |-> <<WordBoundary, Rep(Digit, 4, 4), Opt({"-"} \cup Space),
                      Rep(Digit, 4, 4), Opt({"-"} \cup Space), Rep(Digit, 4, 4),
                      Opt({"-"} \cup Space), Rep(Digit, 4, 4), WordBoundary>>] >>

\* entries that count the offsets from one
Entries_from_one(pattern_name, scanned, matches) ==
    [i \in DOMAIN matches |->
        [type |-> pattern_name, original |-> group(scanned, matches[i]),
         start |-> matches[i].s, end |-> matches[i].e]]

\* the entries one pattern adds: the offsets are those of the matches in
\* scanned, the text as it was when the pattern's loop began
RECURSIVE Entries(_, _, _)
Entries(pattern_name, scanned, matches) ==
    IF matches = <<>> THEN <<>>
    ELSE <<[type |-> pattern_name, original |-> group(scanned, matches[1]),
            start |-> matches[1].s - 1, end |-> matches[1].e - 1]>>
         \o Entries(pattern_name, scanned, Tail(matches))

\* redacted_text = redacted_text.replace(match.group(), redaction_type), for
\* each match in turn
RECURSIVE ReplaceEach(_, _, _, _)
ReplaceEach(redacted_text, scanned, matches, redaction_type) ==
    IF matches = <<>> THEN redacted_text
    ELSE ReplaceEach(replace(redacted_text, group(scanned, matches[1]), redaction_type),
                     scanned, Tail(matches), redaction_type)

RECURSIVE RedactWith(_, _, _, _)
RedactWith(pats, k, redacted_text, redaction_type) ==
    IF k > Len(pats) THEN [redacted_text |-> redacted_text, redactions_made |-> <<>>]
    ELSE
    LET matches == finditer(pats[k].pattern, redacted_text)
        rest == RedactWith(pats, k + 1,
                           ReplaceEach(redacted_text, redacted_text, matches, redaction_type),
                           redaction_type)
    IN  [redacted_text |-> rest.redacted_text,
         redactions_made |-> Entries(pats[k].name, redacted_text, matches)
                             \o rest.redactions_made]

\* text is not empty: the handler has answered 400 for an empty text
redact_text(text, redaction_type) == RedactWith(patterns, 1, text, redaction_type)

\* a custom pattern of the model: a literal, matched with re.IGNORECASE
Literal(chars) ==
    [i \in 1..Len(chars) |->
        One({chars[i], LowerOf(chars[i])}
            \cup {UpperSeq[j] : j \in {j \in 1..Len(LowerSeq) : LowerSeq[j] = LowerOf(chars[i])}})]

\* the custom branch of redact_document: for each pattern, the entries of
\* list(re.finditer(...)) on the text so far, then re.sub on it
RECURSIVE RedactCustom(_, _, _, _)
RedactCustom(custom_patterns, k, redacted_text, redaction_text) ==
    IF k > Len(custom_patterns)
    THEN [redacted_text |-> redacted_text, redactions_made |-> <<>>]
    ELSE
    LET pat == Literal(custom_patterns[k])
        matches == finditer(pat, redacted_text)
        rest == RedactCustom(custom_patterns, k + 1,
                             re_sub(pat, redaction_text, redacted_text), redaction_text)
    IN  [redacted_text |-> rest.redacted_text,
         redactions_made |-> Entries("custom", redacted_text, matches)
                             \o rest.redactions_made]

---------------------------------------------------------------------------
(* routes/processing.py: the handlers *)

\* db.session.add(row) for each row of rows, ids counting up from the table's
RECURSIVE AddRows(_, _)
AddRows(table, rows) ==
    IF rows = <<>> THEN table
    ELSE AddRows(table @@ (NextId(table) :> rows[1]), Tail(rows))

\* DocumentSummary.query.filter_by(document_id=..., summary_type=...)
SummariesOf(s, document_id, summary_type) ==
    {i \in DOMAIN s.document_summaries :
        /\ s.document_summaries[i].document_id = document_id
        /\ s.document_summaries[i].summary_type = summary_type}

\* an upsert that never finds the row
UpsertSummary_adding(s, document_id, summary_type, content, confidence_score) ==
    [s EXCEPT !.document_summaries =
        @ @@ (NextId(@) :> [document_id |-> document_id, summary_type |-> summary_type,
                            content |-> content, confidence_score |-> confidence_score])]

\* the upsert of summarize_document and transcribe_document
UpsertSummary(s, document_id, summary_type, content, confidence_score) ==
    LET existing == SummariesOf(s, document_id, summary_type) IN
    IF existing # {}
    THEN [s EXCEPT !.document_summaries[Min(existing)].content = content]
    ELSE [s EXCEPT !.document_summaries =
            @ @@ (NextId(@) :> [document_id |-> document_id, summary_type |-> summary_type,
                                content |-> content, confidence_score |-> confidence_score])]

\* fault: "none", or the commit that raises ("commit1": the summary's,
\* "commit2": the status update's)
summarize_document_handler(s, user_id, document_id, summary_type, fault, a1, a2) ==
    IF user_id \notin DOMAIN s.users THEN Reply(s, Response("summarize", 404))
    ELSE IF ~OwnedDocument(s, document_id, user_id) THEN Reply(s, Response("summarize", 404))
    ELSE IF summary_type \notin {"brief", "detailed", "key_points"}
    THEN Reply(s, Response("summarize", 400))
    ELSE
    LET document == s.documents[document_id] IN
    IF document.file_path \notin DOMAIN s.files THEN Reply(s, Response("summarize", 404))
    ELSE
    LET extracted == extract_text_from_file(document.file_path, document.file_type,
                                            s.files[document.file_path])
    IN
    IF extracted.raises THEN Abort(s, "summarize")
    ELSE IF extracted.text = None \/ extracted.text = Some(<<>>)
    THEN Reply(s, Response("summarize", 400))
    ELSE
    LET summary_content == generate_summary_basic(extracted.text[1], summary_type) IN
    IF fault = "commit1" THEN Abort(s, "summarize")
    ELSE
    LET s1 == UpsertSummary(s, document_id, summary_type, summary_content, "0.8") IN
    IF fault = "commit2" THEN Abort(s1, "summarize")
    ELSE
    LET s2 == [s1 EXCEPT !.documents[document_id].processing_status = "completed",
                         !.documents[document_id].is_processed = TRUE]
        s3 == create_chain_of_custody_record(s2, a1, document.id, "summarized", user_id,
                                             Some([summary_type |-> summary_type]))
        s4 == log_audit_event(s3, a2, "document_summarized", "document",
                              Some(str(document_id)), Some(user_id),
                              Some([summary_type |-> summary_type]))
    IN  Reply(s4, [Response("summarize", 200) EXCEPT !.document_id = Some(document_id)])

\* the DocumentRedaction rows of one request
RedactionRows(document_id, redaction_type, redactions_made, redaction_text, user_id) ==
    [i \in 1..Len(redactions_made) |->
        [document_id |-> document_id, redaction_type |-> redaction_type,
         start_position |-> redactions_made[i].start,
         end_position |-> redactions_made[i].end,
         original_text |-> redactions_made[i].original,
         redacted_text |-> redaction_text, applied_by |-> user_id]]

redact_document_handler(s, user_id, document_id, data, commit_ok, a1, a2) ==
    IF user_id \notin DOMAIN s.users THEN Reply(s, Response("redact", 404))
    ELSE IF ~OwnedDocument(s, document_id, user_id) THEN Reply(s, Response("redact", 404))
    ELSE
    LET document == s.documents[document_id] IN
    IF document.file_path \notin DOMAIN s.files THEN Reply(s, Response("redact", 404))
    ELSE
    LET extracted == extract_text_from_file(document.file_path, document.file_type,
                                            s.files[document.file_path])
    IN
    IF extracted.raises THEN Abort(s, "redact")
    ELSE IF extracted.text = None \/ extracted.text = Some(<<>>)
    THEN Reply(s, Response("redact", 400))
    ELSE
    LET done == IF data.redaction_type = "custom" /\ data.custom_patterns # <<>>
                THEN RedactCustom(data.custom_patterns, 1, extracted.text[1],
                                  data.redaction_text)
                ELSE redact_text(extracted.text[1], data.redaction_text)
        rows == RedactionRows(document_id, data.redaction_type, done.redactions_made,
                              data.redaction_text, user_id)
    IN
    IF ~commit_ok THEN Abort(s, "redact")
    ELSE
    LET s1 == [s EXCEPT !.document_redactions = AddRows(@, rows)]
        s2 == create_chain_of_custody_record(s1, a1, document.id, "redacted", user_id,
                                             Some([redactions_count |-> Len(rows)]))
        s3 == log_audit_event(s2, a2, "document_redacted", "document",
                              Some(str(document_id)), Some(user_id),
                              Some([redactions_count |-> Len(rows)]))
    IN  Reply(s3, [Response("redact", 200) EXCEPT !.document_id = Some(document_id)])

\* the DocumentTimeline rows of one request
TimelineRows(document_id, timeline_events) ==
    [i \in 1..Len(timeline_events) |->
        [document_id |-> document_id, event_date |-> timeline_events[i].date,
         event_type |-> "extracted",
         event_description |-> timeline_events[i].description,
         confidence_score |-> timeline_events[i].confidence]]

\* a regeneration that keeps the rows of earlier requests
ClearedTimelines_keeping(s, document_id) == s.document_timelines

\* DocumentTimeline.query.filter_by(document_id=document_id).delete()
ClearedTimelines(s, document_id) ==
    LET kept == {i \in DOMAIN s.document_timelines :
                    s.document_timelines[i].document_id # document_id}
    IN  [i \in kept |-> s.document_timelines[i]]

generate_timeline_handler(s, user_id, document_id, commit_ok, a1, a2) ==
    IF user_id \notin DOMAIN s.users THEN Reply(s, Response("timeline", 404))
    ELSE IF ~OwnedDocument(s, document_id, user_id) THEN Reply(s, Response("timeline", 404))
    ELSE
    LET document == s.documents[document_id] IN
    IF document.file_path \notin DOMAIN s.files THEN Reply(s, Response("timeline", 404))
    ELSE
    LET extracted == extract_text_from_file(document.file_path, document.file_type,
                                            s.files[document.file_path])
    IN
    IF extracted.raises THEN Abort(s, "timeline")
    ELSE IF extracted.text = None \/ extracted.text = Some(<<>>)
    THEN Reply(s, Response("timeline", 400))
    ELSE
    LET timeline_events == extract_timeline_events_basic(extracted.text[1])
        cleared == ClearedTimelines(s, document_id)
    IN
    IF ~commit_ok THEN Abort(s, "timeline")
    ELSE
    LET s1 == [s EXCEPT !.document_timelines =
                 AddRows(cleared, TimelineRows(document_id, timeline_events))]
        s2 == create_chain_of_custody_record(s1, a1, document.id, "timeline_generated",
                                             user_id,
                                             Some([events_extracted |-> Len(timeline_events)]))
        s3 == log_audit_event(s2, a2, "document_timeline_generated", "document",
                              Some(str(document_id)), Some(user_id),
                              Some([events_extracted |-> Len(timeline_events)]))
    IN  Reply(s3, [Response("timeline", 200) EXCEPT !.document_id = Some(document_id)])

\* the placeholder text, which names the file
Transcription(document) == <<"[PLACEHOLDER TRANSCRIPTION]", document.original_filename>>

transcribe_document_handler(s, user_id, document_id, commit_ok, a1, a2) ==
    IF user_id \notin DOMAIN s.users THEN Reply(s, Response("transcribe", 404))
    ELSE IF ~OwnedDocument(s, document_id, user_id) THEN Reply(s, Response("transcribe", 404))
    ELSE
    LET document == s.documents[document_id] IN
    IF document.file_type \notin {"audio", "video"} THEN Reply(s, Response("transcribe", 400))
    ELSE IF ~commit_ok THEN Abort(s, "transcribe")
    ELSE
    LET s1 == UpsertSummary(s, document_id, "transcription", Transcription(document), "0.9")
        s2 == create_chain_of_custody_record(s1, a1, document.id, "transcribed", user_id,
                                             Some([filename |-> document.original_filename]))
        s3 == log_audit_event(s2, a2, "document_transcribed", "document",
                              Some(str(document_id)), Some(user_id),
                              Some([filename |-> document.original_filename]))
    IN  Reply(s3, [Response("transcribe", 200) EXCEPT !.document_id = Some(document_id)])

---------------------------------------------------------------------------
(* The reads of one document. *)

\* documents.get_document
get_document_handler(s, user_id, document_id, a1) ==
    IF user_id \notin DOMAIN s.users THEN Reply(s, Response("get", 404))
    ELSE IF ~OwnedDocument(s, document_id, user_id) THEN Reply(s, Response("get", 404))
    ELSE
    LET document == s.documents[document_id]
        s1 == log_audit_event(s, a1, "document_accessed", "document",
                              Some(str(document_id)), Some(user_id),
                              Some([filename |-> document.original_filename]))
    IN  IF to_dict_raises(document) THEN Abort(s1, "get")
        ELSE Reply(s1, Response("get", 200) @@ [document |-> document])

\* the rows of table that belong to the document
RowsOf(table, document_id) ==
    {table[i] : i \in {i \in DOMAIN table : table[i].document_id = document_id}}

\* processing.get_document_summaries, get_document_redactions and
\* get_document_timeline: kind names the table read
get_document_rows_handler(s, user_id, document_id, kind) ==
    IF user_id \notin DOMAIN s.users THEN Reply(s, Response(kind, 404))
    ELSE IF ~OwnedDocument(s, document_id, user_id) THEN Reply(s, Response(kind, 404))
    ELSE
    LET table == CASE kind = "summaries" -> s.document_summaries
                   [] kind = "redactions" -> s.document_redactions
                   [] kind = "timeline" -> s.document_timelines
    IN  Reply(s, Response(kind, 200) @@ [rows |-> RowsOf(table, document_id)])

---------------------------------------------------------------------------
(* routes/analysis.py: the analysis of a chat prompt *)

positive_words ==
    << <<"g", "o", "o", "d">>,
       <<"e", "x", "c", "e", "l", "l", "e", "n", "t">>,
       <<"p", "o", "s", "i", "t", "i", "v", "e">>,
       <<"s", "u", "c", "c", "e", "s", "s">>,
       <<"a", "g", "r", "e", "e">>,
       <<"s", "a", "t", "i", "s", "f", "i", "e", "d">>,
       <<"h", "a", "p", "p", "y">> >>

negative_words ==
    << <<"b", "a", "d">>,
       <<"t", "e", "r", "r", "i", "b", "l", "e">>,
       <<"n", "e", "g", "a", "t", "i", "v", "e">>,
       <<"f", "a", "i", "l", "u", "r", "e">>,
       <<"d", "i", "s", "a", "g", "r", "e", "e">>,
       <<"u", "n", "s", "a", "t", "i", "s", "f", "i", "e", "d">>,
       <<"a", "n", "g", "r", "y">>,
       <<"p", "r", "o", "b", "l", "e", "m">> >>

\* a count that looks at the first word of the list only
CountWords_first(words, content_lower) == IF Contains(content_lower, words[1]) THEN 1 ELSE 0

\* sum(1 for word in words if word in content_lower)
CountWords(words, content_lower) ==
    Cardinality({i \in DOMAIN words : Contains(content_lower, words[i])})

\* the pattern of a word taken literally
Verbatim(word) == [i \in DOMAIN word |-> One({word[i]})]

\* sensitive_patterns: SSN, 16 digits, password, confidential
sensitive_patterns ==
    << <<WordBoundary, Rep(Digit, 3, 3), One({"-"}), Rep(Digit, 2, 2), One({"-"}),
         Rep(Digit, 4, 4), WordBoundary>>,
       <<WordBoundary, Rep(Digit, 16, 16), WordBoundary>>,
       <<WordBoundary>> \o Verbatim(<<"p", "a", "s", "s", "w", "o", "r", "d">>)
          \o <<WordBoundary>>,
       <<WordBoundary>>
          \o Verbatim(<<"c", "o", "n", "f", "i", "d", "e", "n", "t", "i", "a", "l">>)
          \o <<WordBoundary>> >>

urgent_keywords ==
    << <<"u", "r", "g", "e", "n", "t">>,
       <<"e", "m", "e", "r", "g", "e", "n", "c", "y">>,
       <<"a", "s", "a", "p">>,
       <<"i", "m", "m", "e", "d", "i", "a", "t", "e", "l", "y">>,
       <<"c", "r", "i", "t", "i", "c", "a", "l">>,
       <<"d", "e", "a", "d", "l", "i", "n", "e">> >>

medium_keywords ==
    << <<"s", "o", "o", "n">>,
       <<"p", "r", "i", "o", "r", "i", "t", "y">>,
       <<"i", "m", "p", "o", "r", "t", "a", "n", "t">> >>

\* analysis.analyze_chat_content_basic.  sentiment_score is held in tenths
\* (2 for 0.2, -8 for -0.8); entities and keywords, which go into the JSON
\* columns only, are not held.
analyze_chat_content_basic(content) ==
    LET content_lower == lower(content)
        positive_count == CountWords(positive_words, content_lower)
        negative_count == CountWords(negative_words, content_lower)
    IN  [sentiment |-> IF positive_count > negative_count THEN "positive"
                       ELSE IF negative_count > positive_count THEN "negative"
                       ELSE "neutral",
         sentiment_score |->
            IF positive_count > negative_count
            THEN Min({8, (positive_count - negative_count) * 2})
            ELSE IF negative_count > positive_count
            THEN Max({-8, (positive_count - negative_count) * 2})
            ELSE 0,
         urgency_level |->
            IF CountWords(urgent_keywords, content_lower) > 0 THEN "high"
            ELSE IF CountWords(medium_keywords, content_lower) > 0 THEN "medium"
            ELSE "low",
         contains_sensitive_info |->
            \E k \in DOMAIN sensitive_patterns :
                re_search(sensitive_patterns[k], content_lower)]

MaxChatLength == 10000

\* analysis.analyze_chat.  recent: the stored analyses of this content are
\* less than an hour old
analyze_chat_handler(s, user_id, data, recent, commit_ok, a1, a2) ==
    IF user_id \notin DOMAIN s.users THEN Reply(s, Response("chat", 404))
    ELSE IF data.content = None THEN Reply(s, Response("chat", 400))
    ELSE
    LET chat_content == data.content[1] IN
    IF Len(strip(chat_content)) < 5 THEN Reply(s, Response("chat", 400))
    ELSE IF Len(chat_content) > MaxChatLength THEN Reply(s, Response("chat", 400))
    ELSE
    LET content_hash == calculate_file_hash(chat_content)
        stored == {i \in DOMAIN s.chat_analyses :
                      /\ s.chat_analyses[i].content_hash = content_hash
                      /\ s.chat_analyses[i].user_id = user_id}
    IN
    IF recent /\ stored # {}
    THEN LET id == Min(stored)
             s1 == log_audit_event(s, a1, "chat_analysis_retrieved", "chat",
                                   Some(str(id)), Some(user_id),
                                   Some([content_hash |-> content_hash]))
         IN  Reply(s1, Response("chat", 200) @@ [analysis |-> s.chat_analyses[id]])
    ELSE
    LET analysis_result == analyze_chat_content_basic(chat_content)
        id == NextId(s.chat_analyses)
        chat_analysis == [user_id |-> user_id, chat_content |-> chat_content,
                          analysis_result |-> analysis_result,
                          sentiment_score |-> analysis_result.sentiment_score,
                          content_hash |-> content_hash]
    IN
    IF ~commit_ok THEN Abort(s, "chat")
    ELSE
    LET s1 == [s EXCEPT !.chat_analyses = @ @@ (id :> chat_analysis)]
        s2 == log_audit_event(s1, a1, "chat_analyzed", "chat", Some(str(id)),
                              Some(user_id),
                              Some([sentiment |-> analysis_result.sentiment]))
        s3 == IF analysis_result.contains_sensitive_info
              THEN log_audit_event(s2, a2, "sensitive_content_detected", "chat",
                                   Some(str(id)), Some(user_id),
                                   Some([content_hash |-> content_hash]))
              ELSE s2
    IN  Reply(s3, Response("chat", 201) @@ [analysis |-> chat_analysis])

---------------------------------------------------------------------------
(* routes/analysis.py: the forensic reads *)

\* the characters of each action name, for the matching of the action filter
Spelling ==
    ("chain_of_custody_uploaded" :> <<"c", "h", "a", "i", "n", "_", "o", "f", "_", "c", "u", "s", "t", "o", "d", "y", "_", "u", "p", "l", "o", "a", "d", "e", "d">>) @@
    ("chain_of_custody_downloaded" :> <<"c", "h", "a", "i", "n", "_", "o", "f", "_", "c", "u", "s", "t", "o", "d", "y", "_", "d", "o", "w", "n", "l", "o", "a", "d", "e", "d">>) @@
    ("chain_of_custody_deleted" :> <<"c", "h", "a", "i", "n", "_", "o", "f", "_", "c", "u", "s", "t", "o", "d", "y", "_", "d", "e", "l", "e", "t", "e", "d">>) @@
    ("chain_of_custody_summarized" :> <<"c", "h", "a", "i", "n", "_", "o", "f", "_", "c", "u", "s", "t", "o", "d", "y", "_", "s", "u", "m", "m", "a", "r", "i", "z", "e", "d">>) @@
    ("chain_of_custody_redacted" :> <<"c", "h", "a", "i", "n", "_", "o", "f", "_", "c", "u", "s", "t", "o", "d", "y", "_", "r", "e", "d", "a", "c", "t", "e", "d">>) @@
    ("chain_of_custody_timeline_generated" :> <<"c", "h", "a", "i", "n", "_", "o", "f", "_", "c", "u", "s", "t", "o", "d", "y", "_", "t", "i", "m", "e", "l", "i", "n", "e", "_", "g", "e", "n", "e", "r", "a", "t", "e", "d">>) @@
    ("chain_of_custody_transcribed" :> <<"c", "h", "a", "i", "n", "_", "o", "f", "_", "c", "u", "s", "t", "o", "d", "y", "_", "t", "r", "a", "n", "s", "c", "r", "i", "b", "e", "d">>) @@
    ("data_exported" :> <<"d", "a", "t", "a", "_", "e", "x", "p", "o", "r", "t", "e", "d">>) @@
    ("document_deleted" :> <<"d", "o", "c", "u", "m", "e", "n", "t", "_", "d", "e", "l", "e", "t", "e", "d">>) @@
    ("document_downloaded" :> <<"d", "o", "c", "u", "m", "e", "n", "t", "_", "d", "o", "w", "n", "l", "o", "a", "d", "e", "d">>) @@
    ("document_integrity_verified" :> <<"d", "o", "c", "u", "m", "e", "n", "t", "_", "i", "n", "t", "e", "g", "r", "i", "t", "y", "_", "v", "e", "r", "i", "f", "i", "e", "d">>) @@
    ("document_integrity_violation" :> <<"d", "o", "c", "u", "m", "e", "n", "t", "_", "i", "n", "t", "e", "g", "r", "i", "t", "y", "_", "v", "i", "o", "l", "a", "t", "i", "o", "n">>) @@
    ("document_redacted" :> <<"d", "o", "c", "u", "m", "e", "n", "t", "_", "r", "e", "d", "a", "c", "t", "e", "d">>) @@
    ("document_summarized" :> <<"d", "o", "c", "u", "m", "e", "n", "t", "_", "s", "u", "m", "m", "a", "r", "i", "z", "e", "d">>) @@
    ("document_timeline_generated" :> <<"d", "o", "c", "u", "m", "e", "n", "t", "_", "t", "i", "m", "e", "l", "i", "n", "e", "_", "g", "e", "n", "e", "r", "a", "t", "e", "d">>) @@
    ("document_transcribed" :> <<"d", "o", "c", "u", "m", "e", "n", "t", "_", "t", "r", "a", "n", "s", "c", "r", "i", "b", "e", "d">>) @@
    ("document_updated" :> <<"d", "o", "c", "u", "m", "e", "n", "t", "_", "u", "p", "d", "a", "t", "e", "d">>) @@
    ("document_uploaded" :> <<"d", "o", "c", "u", "m", "e", "n", "t", "_", "u", "p", "l", "o", "a", "d", "e", "d">>) @@
    ("login_failed" :> <<"l", "o", "g", "i", "n", "_", "f", "a", "i", "l", "e", "d">>) @@
    ("login_successful" :> <<"l", "o", "g", "i", "n", "_", "s", "u", "c", "c", "e", "s", "s", "f", "u", "l">>) @@
    ("logout" :> <<"l", "o", "g", "o", "u", "t">>) @@
    ("password_change_failed" :> <<"p", "a", "s", "s", "w", "o", "r", "d", "_", "c", "h", "a", "n", "g", "e", "_", "f", "a", "i", "l", "e", "d">>) @@
    ("password_changed" :> <<"p", "a", "s", "s", "w", "o", "r", "d", "_", "c", "h", "a", "n", "g", "e", "d">>) @@
    ("user_registered" :> <<"u", "s", "e", "r", "_", "r", "e", "g", "i", "s", "t", "e", "r", "e", "d">>) @@
    ("audit_logs_accessed" :> <<"a", "u", "d", "i", "t", "_", "l", "o", "g", "s", "_", "a", "c", "c", "e", "s", "s", "e", "d">>) @@
    ("forensic_data_accessed" :> <<"f", "o", "r", "e", "n", "s", "i", "c", "_", "d", "a", "t", "a", "_", "a", "c", "c", "e", "s", "s", "e", "d">>)

\* SQL LIKE, case-insensitive: "%" stands for any run of characters and "_"
\* for any one character
RECURSIVE LikeFrom(_, _, _, _)
LikeFrom(text, i, pat, j) ==
    IF j > Len(pat) THEN i > Len(text)
    ELSE IF pat[j] = "%"
    THEN \E k \in i..(Len(text) + 1) : LikeFrom(text, k, pat, j + 1)
    ELSE /\ i <= Len(text)
         /\ pat[j] = "_" \/ LowerOf(pat[j]) = LowerOf(text[i])
         /\ LikeFrom(text, i + 1, pat, j + 1)

\* column.ilike(pattern)
ilike(text, pattern) == LikeFrom(text, 1, pattern, 1)

\* user.role not in ['admin', 'forensic_analyst'], or no such user
\* a check that only asks for the user to exist
Unprivileged_unknown(s, user_id) == user_id \notin DOMAIN s.users

Unprivileged(s, user_id) ==
    user_id \notin DOMAIN s.users
    \/ s.users[user_id].role \notin {"admin", "forensic_analyst"}

\* the positions of log in the order of order_by(AuditLog.timestamp.desc())
RECURSIVE NewestFirst(_, _)
NewestFirst(log, ids) ==
    IF ids = {} THEN <<>>
    ELSE LET i == CHOOSE x \in ids :
                    \A y \in ids : log[y].timestamp[1] <= log[x].timestamp[1]
         IN  <<log[i]>> \o NewestFirst(log, ids \ {i})

\* the filters of get_audit_logs; a filter that is absent or empty is not
\* applied
Filtered(log, args) ==
    {i \in DOMAIN log :
        /\ args.action # None /\ args.action # Some(<<>>) =>
              ilike(Spelling[log[i].action], <<"%">> \o args.action[1] \o <<"%">>)
        /\ args.resource_type # None => log[i].resource_type = args.resource_type[1]
        /\ args.user_id # None /\ args.user_id # Some(0) =>
              log[i].user_id = args.user_id
        /\ args.start_date # None => log[i].timestamp[1] >= args.start_date[1].at
        /\ args.end_date # None => log[i].timestamp[1] <= args.end_date[1].at}

\* query.paginate(page=page, per_page=per_page, error_out=False)
paginate(rows, page, per_page) ==
    LET p == IF page < 1 THEN 1 ELSE page
        n == IF per_page < 1 THEN 20 ELSE per_page
        first == (p - 1) * n + 1
        last == IF p * n < Len(rows) THEN p * n ELSE Len(rows)
    IN  SubSeq(rows, first, last)

\* args: the query string; start_date and end_date carry whether
\* datetime.fromisoformat accepts them, and the time they name
get_audit_logs_handler(s, user_id, args, a1) ==
    IF Unprivileged(s, user_id) THEN Reply(s, Response("audit_logs", 403))
    ELSE
    LET page == IF args.page = None THEN 1 ELSE args.page[1]
        per_page == LET asked == IF args.per_page = None THEN 50 ELSE args.per_page[1]
                    IN  IF asked < 200 THEN asked ELSE 200
    IN
    IF args.start_date # None /\ ~args.start_date[1].ok
    THEN Reply(s, Response("audit_logs", 400))
    ELSE IF args.end_date # None /\ ~args.end_date[1].ok
    THEN Reply(s, Response("audit_logs", 400))
    ELSE
    LET found == NewestFirst(s.audit_logs, Filtered(s.audit_logs, args))
        items == paginate(found, page, per_page)
        s1 == log_audit_event(s, a1, "audit_logs_accessed", "system", None, Some(user_id),
                              Some([filters |-> [action |-> args.action,
                                                 resource_type |-> args.resource_type,
                                                 user_id |-> args.user_id],
                                    results_count |-> Len(items)]))
    IN  Reply(s1, Response("audit_logs", 200)
                  @@ [audit_logs |-> items, total |-> Len(found)])

\* analysis.py imports hashlib, json, time and datetime, and not os: the name
\* os in get_forensic_data is undefined, and using it raises NameError
os_imported == FALSE

\* resource_type: request.args.get('type', 'document').  No ChatAnalysis row
\* exists: the model runs no chat analysis.
get_forensic_data_handler(s, user_id, resource_id, resource_type, a1) ==
    IF Unprivileged(s, user_id) THEN Reply(s, Response("forensics", 403))
    ELSE IF resource_type \notin {"document", "chat", "user"}
    THEN Reply(s, Response("forensics", 400))
    ELSE
    LET ids == {i \in DOMAIN s.audit_logs :
                    /\ s.audit_logs[i].resource_type = resource_type
                    /\ s.audit_logs[i].resource_id = Some(str(resource_id))}
        audit_trail == NewestFirst(s.audit_logs, ids)
        held == resource_type = "document" /\ resource_id \in DOMAIN s.documents
    IN
    IF held /\ to_dict_raises(s.documents[resource_id]) THEN Abort(s, "forensics")
    ELSE IF held /\ ~os_imported THEN Abort(s, "forensics")
    ELSE
    LET document == s.documents[resource_id]
        on_disk == held /\ document.file_path \in DOMAIN s.files
        integrity_status ==
            IF on_disk
            THEN Some([verified |-> calculate_file_hash(s.files[document.file_path])
                                      = document.content_hash])
            ELSE None
        s1 == log_audit_event(s, a1, "forensic_data_accessed", resource_type,
                              Some(str(resource_id)), Some(user_id),
                              Some([events_count |-> Len(audit_trail)]))
    IN  Reply(s1, Response("forensics", 200)
                  @@ [audit_trail |-> audit_trail,
                      resource_details |->
                         IF held THEN Some(document)
                         ELSE IF resource_type = "chat"
                                 /\ resource_id \in DOMAIN s.chat_analyses
                         THEN Some(s.chat_analyses[resource_id])
                         ELSE None,
                      integrity_status |-> integrity_status])

---------------------------------------------------------------------------
(* The requests of the model. *)

\* "on 2024-01-05 ssn 123-45-6789": one sentence with a date and an SSN
NoteBytes ==
    <<"o", "n", " ", "2", "0", "2", "4", "-", "0", "1", "-", "0", "5", " ", "s", "s", "n", " ", "1", "2", "3", "-", "4", "5", "-", "6", "7", "8", "9">>

\* the uploads: a text note, a recording, a file of a type that is not
\* allowed, an empty file name, no file part
UploadFiles ==
    {[present |-> TRUE, filename |-> [name |-> "note", ext |-> "txt"], content |-> NoteBytes],
     [present |-> TRUE, filename |-> [name |-> "tape", ext |-> "mp3"], content |-> <<"a">>],
     [present |-> TRUE, filename |-> [name |-> "tool", ext |-> "exe"], content |-> NoteBytes],
     [present |-> TRUE, filename |-> [name |-> "", ext |-> ""], content |-> <<>>],
     [present |-> FALSE, filename |-> [name |-> "", ext |-> ""], content |-> <<>>]}

\* request.form: tags is JSON or not
UploadForms ==
    {[case_number |-> "", description |-> "", tags |-> "[]"],
     [case_number |-> "", description |-> "", tags |-> "x"]}

\* the upload requests: who sends which file with which form
UploadRequests ==
    {r \in [user_id : {1, 2}, file : UploadFiles, form : UploadForms] :
        \/ r.user_id = 2 /\ r.file.filename.name = "note"
        \/ r.user_id = 1 /\ r.form.tags = "[]"}

\* the social security number of the redaction examples
Ssn == <<"1", "2", "3", "-", "4", "5", "-", "6", "7", "8", "9">>

\* the texts to redact:
\*   "ssn 123-45-6789": one number after a word
\*   "id123-45-6789": the number glued to a word
\*   "123-45-6789 555-123-4567": the number and a telephone number
\*   "123-45-6789 or 123-45-6789": the number twice
\*   "a@x.org 123-45-6789": a mail address before the number
\*   "call 555-123-4567": a telephone number alone
\*   "123-45-6789 x123-45-6789": the number alone and glued to a letter
RedactTexts ==
    {<<"s", "s", "n", " ", "1", "2", "3", "-", "4", "5", "-", "6", "7", "8", "9">>,
     <<"i", "d", "1", "2", "3", "-", "4", "5", "-", "6", "7", "8", "9">>,
     <<"1", "2", "3", "-", "4", "5", "-", "6", "7", "8", "9", " ", "5", "5", "5", "-", "1", "2", "3", "-", "4", "5", "6", "7">>,
     <<"1", "2", "3", "-", "4", "5", "-", "6", "7", "8", "9", " ", "o", "r", " ", "1", "2", "3", "-", "4", "5", "-", "6", "7", "8", "9">>,
     <<"a", "@", "x", ".", "o", "r", "g", " ", "1", "2", "3", "-", "4", "5", "-", "6", "7", "8", "9">>,
     <<"c", "a", "l", "l", " ", "5", "5", "5", "-", "1", "2", "3", "-", "4", "5", "6", "7">>,
     <<"1", "2", "3", "-", "4", "5", "-", "6", "7", "8", "9", " ", "x", "1", "2", "3", "-", "4", "5", "-", "6", "7", "8", "9">>}

\* bodies of redact_document with two custom patterns
CustomBodies ==
    {[redaction_type |-> "custom", custom_patterns |-> << <<"s", "s", "n">>, <<"c", "a", "l", "l">> >>,
      redaction_text |-> DefaultRedactionText],
     [redaction_type |-> "custom", custom_patterns |-> << <<"i", "d">>, <<"r", "e", "d">> >>,
      redaction_text |-> DefaultRedactionText]}

\* the texts the timeline is extracted from
TimelineTexts ==
    {\* both formats, the later date first
     <<"f", "i", "l", "e", "d", " ", "0", "3", "/", "0", "5", "/", "2", "0",
       "2", "4", " ", "i", "n", " ", "t", "h", "e", " ", "c", "o", "u", "r",
       "t", ".", " ", "h", "e", "a", "r", "d", " ", "2", "0", "2", "4", "-",
       "0", "1", "-", "0", "5", " ", "b", "y", " ", "t", "h", "e", " ", "j",
       "u", "d", "g", "e", ".">>,
     \* two dates of one format in one sentence
     <<"m", "e", "t", " ", "0", "1", "/", "0", "5", "/", "2", "0", "2", "4",
       " ", "a", "n", "d", " ", "0", "2", "/", "0", "6", "/", "2", "0", "2",
       "4", " ", "i", "n", " ", "t", "o", "w", "n", ".">>,
     \* a date that does not exist before one that does
     <<"o", "n", " ", "1", "3", "/", "0", "1", "/", "2", "0", "2", "4", " ",
       "o", "r", " ", "0", "1", "/", "0", "5", "/", "2", "0", "2", "4", " ",
       "w", "e", " ", "m", "e", "t", ".">>,
     \* a sentence of fewer than 20 characters
     <<"s", "h", "o", "r", "t", " ", "0", "1", "/", "0", "5", "/", "2", "0",
       "2", "4", ".">>,
     \* a date glued to a letter
     <<"r", "e", "f", " ", "x", "0", "1", "/", "0", "5", "/", "2", "0", "2",
       "4", " ", "w", "a", "s", " ", "f", "i", "l", "e", "d", " ", "i", "n",
       " ", "c", "o", "u", "r", "t">>,
     \* MM-DD-YYYY and a day that does not exist
     <<"s", "i", "g", "n", "e", "d", " ", "0", "1", "-", "0", "5", "-", "2",
       "0", "2", "4", " ", "a", "n", "d", " ", "2", "0", "2", "4", "-", "0",
       "2", "-", "3", "0", " ", "h", "e", "r", "e", ".">>,
     \* the same day in both formats
     <<"s", "e", "e", "n", " ", "2", "0", "2", "4", "-", "0", "1", "-", "0",
       "5", " ", "a", "n", "d", " ", "0", "1", "/", "0", "5", "/", "2", "0",
       "2", "4", " ", "a", "t", " ", "n", "o", "o", "n", "!">>,
     \* 29 February of a leap year and of another year
     <<"d", "u", "e", " ", "2", "/", "2", "9", "/", "2", "0", "2", "4", " ",
       "a", "n", "d", " ", "2", "/", "2", "9", "/", "2", "0", "2", "3", " ",
       "f", "o", "r", " ", "r", "e", "v", "i", "e", "w", "?">>,
     \* two sentences in date order and a short one without a date
     <<"p", "a", "i", "d", " ", "2", "0", "2", "3", "-", "1", "2", "-", "3",
       "1", " ", "a", "s", " ", "a", "g", "r", "e", "e", "d", ".", " ", "s",
       "e", "n", "t", " ", "1", "/", "2", "/", "2", "0", "2", "4", " ", "t",
       "o", " ", "a", " ", "b", "a", "n", "k", ".", " ", "o", "k", ".">>}

\* a text long enough to be summarized: three sentences, the second too
\* short to be kept
ReportBytes ==
    <<"t", "h", "e", " ", "w", "i", "t", "n", "e", "s", "s", " ", "s", "a", "w", " ",
      "t", "h", "e", " ", "c", "a", "r", " ", "l", "e", "a", "v", "e", " ", "t", "h",
      "e", " ", "h", "o", "u", "s", "e", " ", "a", "t", " ", "n", "i", "g", "h", "t",
      ".", " ", "a", "g", "r", "e", "e", "d", ".", " ", "t", "h", "e", " ", "c", "o",
      "u", "r", "t", " ", "f", "o", "u", "n", "d", " ", "t", "h", "e", " ", "e", "v",
      "i", "d", "e", "n", "c", "e", " ", "s", "i", "g", "n", "i", "f", "i", "c", "a",
      "n", "t", " ", "a", "n", "d", " ", "c", "l", "o", "s", "e", "d", " ", "t", "h",
      "e", " ", "c", "a", "s", "e", ".">>

\* a query string of get_audit_logs without filters
NoFilters ==
    [page |-> None, per_page |-> None, action |-> None, resource_type |-> None,
     user_id |-> None, start_date |-> None, end_date |-> None]

\* the audit-log queries the model sends: no filter; the action filter
\* "LOGIN" on pages of one entry; the action filter "d_d"
AuditQueries ==
    {NoFilters,
     [NoFilters EXCEPT !.action = Some(<<"L", "O", "G", "I", "N">>), !.per_page = Some(1)],
     [NoFilters EXCEPT !.action = Some(<<"d", "_", "d">>)]}

\* the resources and types of the forensic requests
ForensicTypes == {"document", "user", "file"}

\* which of the two audit writes of a request persist
AuditOutcomes == {<<TRUE, TRUE>>, <<FALSE, FALSE>>}

\* the names, the mail domain and the password of the users of the model
alice == <<"a", "l", "i", "c", "e">>
bob == <<"b", "o", "b">>
carol == <<"c", "a", "r", "o", "l">>
at_x_org == <<"@", "x", ".", "o", "r", "g">>
Passw0rd == <<"P", "a", "s", "s", "w", "0", "r", "d", "!">>

\* the JSON bodies of update_document
UpdateBodies ==
    {None, Some([case_number |-> "c", description |-> "d", tags |-> "x"]),
     Some([tags |-> "[]"])}

\* the JSON bodies of redact_document
RedactBodies ==
    {[redaction_type |-> "pii", custom_patterns |-> <<>>,
      redaction_text |-> DefaultRedactionText],
     [redaction_type |-> "custom", custom_patterns |-> << <<"S", "s", "n">> >>,
      redaction_text |-> DefaultRedactionText]}

SummaryTypes == {"brief", "full"}

LoginBodies ==
    {[username |-> <<" ", "A", "l", "i", "c", "e", " ">>, password |-> Passw0rd],
     [username |-> alice, password |-> <<"w", "r", "o", "n", "g">>],
     [username |-> bob, password |-> <<>>]}

ExportTypes == {"full"}

\* passwords: two that meet every rule and one failing each rule, the
\* underscore being no special character of the validation
Passw0rd2 == <<"P", "a", "s", "s", "w", "0", "r", "d", "?">>
Passwords ==
    {Passw0rd, Passw0rd2,
     <<"P", "a", "0", "!">>,
     <<"p", "a", "s", "s", "w", "0", "r", "d", "!">>,
     <<"P", "A", "S", "S", "W", "0", "R", "D", "!">>,
     <<"P", "a", "s", "s", "w", "o", "r", "d", "!">>,
     <<"P", "a", "s", "s", "w", "0", "r", "d", "1">>,
     <<"P", "a", "s", "s", "w", "0", "r", "d", "_">>}

\* the JSON bodies of register: a new user; the same name in another
\* spelling with a role of the sender's making; the same mail address in
\* capitals with the role admin; the name of a user there from the start; a
\* password without a special character; no mail address
RegisterBodies ==
    {[username |-> carol, email |-> carol \o at_x_org, password |-> Passw0rd, role |-> None],
     [username |-> <<" ", "C", "a", "r", "o", "l">>, email |-> <<"c", "2">> \o at_x_org,
      password |-> Passw0rd, role |-> Some("root")],
     [username |-> <<"d", "a", "v", "e">>, email |-> <<"C", "A", "R", "O", "L">> \o at_x_org,
      password |-> Passw0rd, role |-> Some("admin")],
     [username |-> <<"A", "l", "i", "c", "e", " ">>, email |-> <<"a", "2">> \o at_x_org,
      password |-> Passw0rd, role |-> None],
     [username |-> <<"e", "r", "i", "n">>, email |-> <<"e">> \o at_x_org,
      password |-> <<"P", "a", "s", "s", "w", "0", "r", "d", "1">>, role |-> None],
     [username |-> <<"e", "r", "i", "n">>, email |-> <<>>, password |-> Passw0rd,
      role |-> None]}

\* the JSON bodies of change_password
ChangeBodies ==
    {[current_password |-> Passw0rd, new_password |-> Passw0rd2],
     [current_password |-> Passw0rd2, new_password |-> Passw0rd],
     [current_password |-> Passw0rd, new_password |-> <<"P", "a", "s", "s", "w", "0", "r", "d", "_">>],
     [current_password |-> Passw0rd, new_password |-> <<>>]}

\* what a change of a stored file from outside the application writes
TamperBytes == {<<"z">>, <<"xFF">>}

\* the identities of the tokens in use
Identities == {1, 2}
DocumentIds == 1..3

\* one request: the handler's result becomes the state
Do(o) ==
    /\ requests < MaxRequests
    /\ requests' = requests + 1
    /\ Apply(o)
    /\ UNCHANGED in_flight

Init ==
    /\ users = (1 :> [username |-> alice, email |-> alice \o at_x_org,
                      password_hash |-> generate_password_hash(Passw0rd),
                      role |-> "user", is_active |-> TRUE, last_login |-> None])
               @@ (2 :> [username |-> bob, email |-> bob \o at_x_org,
                         password_hash |-> generate_password_hash(Passw0rd),
                         role |-> "admin", is_active |-> TRUE, last_login |-> None])
    /\ documents = <<>>
    /\ document_summaries = <<>>
    /\ document_redactions = <<>>
    /\ document_timelines = <<>>
    /\ chat_analyses = <<>>
    /\ audit_logs = <<>>
    /\ files = <<>>
    /\ in_flight = {}
    /\ tampered = {}
    /\ requests = 0

\* upload_document up to file.save: the status of the rejection, or 0 when
\* the request goes on to save its file
UploadRejection(s, user_id, file) ==
    IF user_id \notin DOMAIN s.users THEN 404
    ELSE IF ~file.present THEN 400
    ELSE IF file.filename.name = "" /\ file.filename.ext = "" THEN 400
    ELSE IF ~allowed_file(file.filename) THEN 400
    ELSE IF Len(file.content) > MAX_CONTENT_LENGTH THEN 400
    ELSE IF DocumentsWithHash(s, calculate_file_hash(file.content)) # {} THEN 409
    ELSE 0

\* upload_document from db.session.add(document) on, for a request whose
\* file is saved at saved.file_path
upload_commit_handler(s, saved, commit_ok, a1, a2) ==
    LET id == NextId(s.documents)
        file == saved.file
        content_hash == calculate_file_hash(file.content)
        document ==
            [id |-> id, original_filename |-> file.filename,
             file_path |-> saved.file_path,
             file_size |-> Len(file.content), file_type |-> get_file_type(file.filename),
             content_hash |-> content_hash, user_id |-> saved.user_id,
             case_number |-> saved.form.case_number,
             description |-> saved.form.description,
             tags |-> saved.form.tags, is_processed |-> FALSE,
             processing_status |-> "pending"]
    IN
    IF ~commit_ok THEN Abort(RemoveFile(s, saved.file_path), "upload")
    ELSE
    LET s2 == [s EXCEPT !.documents = @ @@ (id :> document)]
        s3 == create_chain_of_custody_record(s2, a1, id, "uploaded", saved.user_id,
                                             Some([content_hash |-> content_hash]))
        s4 == log_audit_event(s3, a2, "document_uploaded", "document", Some(str(id)),
                              Some(saved.user_id), Some([file_type |-> document.file_type]))
    IN
    IF to_dict_raises(document)
    THEN Abort(RemoveFile(s4, saved.file_path), "upload")
    ELSE Reply(s4, [Response("upload", 201) EXCEPT !.document_id = Some(id)])

upload_document ==
    \E r \in UploadRequests, commit_ok \in BOOLEAN, a \in AuditOutcomes :
        Do(upload_document_handler(Cur, r.user_id, r.file, r.form, commit_ok, a[1], a[2]))

verify_document_integrity ==
    \E user_id \in Identities, document_id \in DocumentIds, a \in AuditOutcomes :
        Do(verify_document_integrity_handler(Cur, user_id, document_id, a[1]))

download_document ==
    \E user_id \in Identities, document_id \in DocumentIds, a \in AuditOutcomes :
        Do(download_document_handler(Cur, user_id, document_id, a[1], a[2]))

update_document ==
    \E user_id \in Identities, document_id \in DocumentIds, data \in UpdateBodies,
       commit_ok \in BOOLEAN, a \in AuditOutcomes :
        Do(update_document_handler(Cur, user_id, document_id, data, commit_ok, a[1]))

delete_document ==
    \E user_id \in Identities, document_id \in DocumentIds,
       commit_ok \in BOOLEAN, a \in AuditOutcomes :
        Do(delete_document_handler(Cur, user_id, document_id, commit_ok, a[1], a[2]))

login ==
    \E data \in LoginBodies, commit_ok \in BOOLEAN, a \in AuditOutcomes :
        Do(login_handler(Cur, data, commit_ok, a[1]))

export_analysis_data ==
    \E user_id \in Identities, export_type \in ExportTypes, a \in AuditOutcomes :
        Do(export_analysis_data_handler(Cur, user_id, export_type, a[1]))

summarize_document ==
    \E user_id \in Identities, document_id \in DocumentIds, summary_type \in SummaryTypes,
       fault \in {"none", "commit1", "commit2"}, a \in AuditOutcomes :
        Do(summarize_document_handler(Cur, user_id, document_id, summary_type, fault,
                                      a[1], a[2]))

redact_document ==
    \E user_id \in Identities, document_id \in DocumentIds, data \in RedactBodies,
       commit_ok \in BOOLEAN, a \in AuditOutcomes :
        Do(redact_document_handler(Cur, user_id, document_id, data, commit_ok, a[1], a[2]))

generate_timeline ==
    \E user_id \in Identities, document_id \in DocumentIds,
       commit_ok \in BOOLEAN, a \in AuditOutcomes :
        Do(generate_timeline_handler(Cur, user_id, document_id, commit_ok, a[1], a[2]))

transcribe_document ==
    \E user_id \in Identities, document_id \in DocumentIds,
       commit_ok \in BOOLEAN, a \in AuditOutcomes :
        Do(transcribe_document_handler(Cur, user_id, document_id, commit_ok, a[1], a[2]))

\* upload, first part: the request is checked against the rows committed so
\* far and its file is saved; it then waits for its commit
upload_begin ==
    \E r \in UploadRequests :
        /\ requests < MaxRequests
        /\ requests' = requests + 1
        /\ IF UploadRejection(Cur, r.user_id, r.file) # 0
           THEN UNCHANGED <<in_flight, files>>
           ELSE LET file_path == NewFilePath(Cur, r.file.filename) IN
                /\ Cardinality(in_flight) < MaxInFlight
                /\ files' = files @@ (file_path :> SavedBytes(r.file.content))
                /\ in_flight' = in_flight \cup
                      {[user_id |-> r.user_id, file |-> r.file, form |-> r.form,
                        file_path |-> file_path]}
        /\ UNCHANGED <<users, documents, document_summaries, document_redactions,
                       document_timelines, chat_analyses, audit_logs, tampered>>

\* upload, second part: db.session.add(document), commit, the two audit
\* entries, the answer
upload_commit ==
    \E saved \in in_flight, commit_ok \in BOOLEAN, a \in AuditOutcomes :
        /\ Apply(upload_commit_handler(Cur, saved, commit_ok, a[1], a[2]))
        /\ in_flight' = in_flight \ {saved}
        /\ UNCHANGED requests

\* register, first part: the request is read and checked; one that passes
\* has its User built and waits for its commit
register_begin ==
    \E data \in RegisterBodies :
        /\ requests < MaxRequests
        /\ requests' = requests + 1
        /\ IF RegisterRejection(Cur, data) # 0
           THEN UNCHANGED in_flight
           ELSE /\ Cardinality(in_flight) < MaxInFlight
                /\ in_flight' = in_flight \cup {NewUser(data)}
        /\ UNCHANGED <<users, documents, document_summaries, document_redactions,
                       document_timelines, chat_analyses, audit_logs, files, tampered>>

\* register, second part: db.session.add(user), commit, audit entry, answer
register_commit ==
    \E user \in in_flight, commit_ok \in BOOLEAN, a \in AuditOutcomes :
        /\ Apply(register_commit_handler(Cur, user, commit_ok, a[1]))
        /\ in_flight' = in_flight \ {user}
        /\ UNCHANGED requests

logout ==
    \E user_id \in Identities, a \in AuditOutcomes :
        Do(logout_handler(Cur, user_id, a[1]))

change_password ==
    \E user_id \in Identities, data \in ChangeBodies, commit_ok \in BOOLEAN,
       a \in AuditOutcomes :
        Do(change_password_handler(Cur, user_id, data, commit_ok, a[1]))

\* the environment: a stored file is changed from outside the application
Tamper ==
    \E path \in DOMAIN files, bytes \in TamperBytes :
        /\ files[path] # bytes
        /\ files' = [files EXCEPT ![path] = bytes]
        /\ tampered' = tampered \cup {path}
        /\ UNCHANGED <<users, documents, document_summaries, document_redactions,
                       document_timelines, chat_analyses, audit_logs, in_flight, requests>>

Next ==
    \/ upload_document
    \/ verify_document_integrity
    \/ download_document
    \/ update_document
    \/ delete_document
    \/ login
    \/ export_analysis_data
    \/ summarize_document
    \/ redact_document
    \/ generate_timeline
    \/ transcribe_document
    \/ Tamper

Spec == Init /\ [][Next]_vars

\* the requests of /api/auth
AuthNext ==
    \/ register_begin
    \/ register_commit
    \/ login
    \/ logout
    \/ change_password

AuthSpec == Init /\ [][AuthNext]_vars

\* one bearer of a token: its logouts among its other requests
SessionNext ==
    \/ logout
    \/ login
    \/ upload_document
    \/ verify_document_integrity
    \/ download_document
    \/ update_document
    \/ delete_document
    \/ summarize_document

SessionSpec == Init /\ [][SessionNext]_vars

\* redact_document with several custom patterns
redact_custom ==
    \E user_id \in Identities, document_id \in DocumentIds, data \in CustomBodies,
       commit_ok \in BOOLEAN, a \in AuditOutcomes :
        Do(redact_document_handler(Cur, user_id, document_id, data, commit_ok, a[1], a[2]))

\* the state before any request, as a record
Fresh ==
    [users |-> (1 :> [username |-> alice, email |-> alice \o at_x_org,
                      password_hash |-> generate_password_hash(Passw0rd),
                      role |-> "user", is_active |-> TRUE, last_login |-> None])
               @@ (2 :> [username |-> bob, email |-> bob \o at_x_org,
                         password_hash |-> generate_password_hash(Passw0rd),
                         role |-> "admin", is_active |-> TRUE, last_login |-> None]),
     documents |-> <<>>, document_summaries |-> <<>>, document_redactions |-> <<>>,
     document_timelines |-> <<>>, chat_analyses |-> <<>>, audit_logs |-> <<>>,
     files |-> <<>>,
     resp |-> NoResponse]

\* the redactor and its inputs: user 1 has uploaded one of the texts
\* texts of at least 100 characters that are not blank
SummaryTexts ==
    {\* two fragments and a short sentence between them
     ReportBytes,
     \* four fragments without a keyword, cut at runs of marks
     <<"t", "h", "e", " ", "w", "i", "t", "n", "e", "s", "s", " ", "s", "a",
       "w", " ", "a", " ", "r", "e", "d", " ", "c", "a", "r", " ", "l", "e",
       "a", "v", "e", "!", " ", " ", "h", "e", " ", "c", "a", "l", "l", "e",
       "d", " ", "t", "h", "e", " ", "p", "o", "l", "i", "c", "e", " ", "a",
       "t", " ", "n", "i", "g", "h", "t", "?", "!", " ", "t", "h", "e", "y",
       " ", "c", "a", "m", "e", " ", "t", "o", " ", "t", "h", "e", " ", "h",
       "o", "u", "s", "e", " ", "b", "y", " ", "t", "e", "n", ".", ".", ".",
       " ", "t", "h", "e", " ", "c", "a", "r", " ", "w", "a", "s", " ", "g",
       "o", "n", "e", " ", "b", "y", " ", "t", "h", "e", "n", " ", "a", "l",
       "r", "e", "a", "d", "y">>,
     \* eleven fragments, six of them with a keyword
     <<"t", "h", "e", " ", "c", "o", "u", "r", "t", " ", "f", "o", "u", "n",
       "d", " ", "t", "h", "e", " ", "c", "a", "r", ".", " ", "i", "t", " ",
       "w", "a", "s", " ", "p", "a", "r", "k", "e", "d", " ", "i", "n", " ",
       "a", " ", "l", "a", "n", "e", ".", " ", "a", "n", " ", "I", "M", "P",
       "O", "R", "T", "A", "N", "T", " ", "n", "o", "t", "e", " ", "w", "a",
       "s", " ", "l", "e", "f", "t", ".", " ", "t", "h", "e", " ", "d", "r",
       "i", "v", "e", "r", " ", "w", "e", "n", "t", " ", "o", "n", " ", "f",
       "o", "o", "t", ".", " ", "t", "h", "e", " ", "r", "e", "s", "u", "l",
       "t", " ", "c", "a", "m", "e", " ", "i", "n", " ", "l", "a", "t", "e",
       ".", " ", "s", "h", "e", " ", "d", "e", "t", "e", "r", "m", "i", "n",
       "e", "d", " ", "t", "h", "e", " ", "c", "a", "u", "s", "e", ".", " ",
       "n", "o", " ", "o", "n", "e", " ", "e", "l", "s", "e", " ", "w", "a",
       "s", " ", "a", "t", " ", "h", "o", "m", "e", ".", " ", "t", "h", "e",
       "y", " ", "c", "o", "n", "c", "l", "u", "d", "e", "d", " ", "t", "h",
       "e", " ", "c", "a", "s", "e", ".", " ", "t", "h", "e", " ", "e", "v",
       "i", "d", "e", "n", "c", "e", " ", "w", "a", "s", " ", "s", "e", "a",
       "l", "e", "d", ".", " ", "a", " ", "r", "e", "p", "o", "r", "t", " ",
       "w", "a", "s", " ", "s", "e", "n", "t", " ", "b", "y", " ", "f", "a",
       "x", ".", " ", "t", "h", "e", " ", "f", "i", "l", "e", " ", "w", "a",
       "s", " ", "t", "h", "e", "n", " ", "c", "l", "o", "s", "e", "d", ".">>,
     \* sentences of at most 20 characters only
     <<"y", "e", "s", " ", "i", "t", " ", "w", "a", "s", ".", " ", "n", "o",
       " ", "i", "t", " ", "w", "a", "s", " ", "n", "o", "t", ".", " ", "h",
       "e", " ", "s", "a", "i", "d", " ", "s", "o", ".", " ", "s", "h", "e",
       " ", "s", "a", "i", "d", " ", "n", "o", ".", " ", "w", "e", " ", "a",
       "l", "l", " ", "l", "e", "f", "t", ".", " ", "i", "t", " ", "g", "o",
       "t", " ", "d", "a", "r", "k", ".", " ", "t", "h", "e", "y", " ", "c",
       "a", "m", "e", " ", "b", "y", ".", " ", "i", " ", "s", "a", "w", " ",
       "i", "t", ".", " ", "y", "o", "u", " ", "d", "i", "d", " ", "t", "o",
       "o", ".", " ", "o", "k", " ", "t", "h", "e", "n", ".", " ", "a", "l",
       "l", " ", "d", "o", "n", "e", " ", "n", "o", "w", ".", " ", "s", "o",
       " ", "i", "t", " ", "e", "n", "d", "e", "d", ".", " ", "n", "o", " ",
       "o", "n", "e", " ", "k", "n", "e", "w", ".">>}

\* the chat prompts that are sent
ChatPrompts ==
    {\* five positive words
     <<"g", "o", "o", "d", " ", "e", "x", "c", "e", "l", "l", "e", "n", "t",
       " ", "p", "o", "s", "i", "t", "i", "v", "e", " ", "s", "u", "c", "c",
       "e", "s", "s", " ", "h", "a", "p", "p", "y">>,
     \* six negative words
     <<"b", "a", "d", " ", "t", "e", "r", "r", "i", "b", "l", "e", " ", "n",
       "e", "g", "a", "t", "i", "v", "e", " ", "f", "a", "i", "l", "u", "r",
       "e", " ", "a", "n", "g", "r", "y", " ", "p", "r", "o", "b", "l", "e",
       "m">>,
     \* a negative word that holds a positive one
     <<"w", "e", " ", "d", "i", "s", "a", "g", "r", "e", "e">>,
     \* fewer than five characters
     <<"h", "e", "y">>,
     \* a positive word and sensitive data
     <<"g", "o", "o", "d", " ", "p", "a", "s", "s", "w", "o", "r", "d", " ",
       "1", "2", "3", "-", "4", "5", "-", "6", "7", "8", "9">>}

\* the chat prompts the analysis is computed for
ChatContents ==
    ChatPrompts \cup
    {\* one positive word
     <<"a", "l", "l", " ", "g", "o", "o", "d">>,
     \* capitals
     <<"G", "O", "O", "D", " ", "a", "n", "d", " ", "H", "a", "p", "p", "y">>,
     \* two negative words
     <<"b", "a", "d", " ", "p", "r", "o", "b", "l", "e", "m">>,
     \* another negative word that holds a positive one
     <<"u", "n", "s", "a", "t", "i", "s", "f", "i", "e", "d">>,
     \* no listed word
     <<"h", "e", "l", "l", "o", " ", "t", "h", "e", "r", "e">>,
     \* one of each list
     <<"g", "o", "o", "d", " ", "b", "a", "d">>,
     \* urgent, and three to one
     <<"u", "r", "g", "e", "n", "t", ":", " ", "b", "a", "d", " ", "t", "e",
       "r", "r", "i", "b", "l", "e", " ", "a", "n", "g", "r", "y", ",", " ",
       "g", "o", "o", "d">>}

ChatBodies == {[content |-> None]} \cup {[content |-> Some(c)] : c \in ChatPrompts}

RedactInit ==
    \E text \in RedactTexts :
        LET o == upload_document_handler(
                    Fresh, 1,
                    [present |-> TRUE, filename |-> [name |-> "note", ext |-> "txt"],
                     content |-> text],
                    [case_number |-> "", description |-> "", tags |-> "[]"],
                    TRUE, TRUE, TRUE)
        IN  /\ users = o.users
            /\ documents = o.documents
            /\ document_summaries = o.document_summaries
            /\ document_redactions = o.document_redactions
            /\ document_timelines = o.document_timelines
            /\ chat_analyses = o.chat_analyses
            /\ audit_logs = o.audit_logs
            /\ files = o.files
            /\ in_flight = {}
            /\ tampered = {}
            /\ requests = 1

RedactNext ==
    \/ redact_document
    \/ redact_custom

RedactSpec == RedactInit /\ [][RedactNext]_vars

get_audit_logs ==
    \E user_id \in Identities, args \in AuditQueries, a \in AuditOutcomes :
        Do(get_audit_logs_handler(Cur, user_id, args, a[1]))

get_forensic_data ==
    \E user_id \in Identities, resource_id \in DocumentIds, resource_type \in ForensicTypes,
       a \in AuditOutcomes :
        Do(get_forensic_data_handler(Cur, user_id, resource_id, resource_type, a[1]))

\* the state after user 1 has uploaded text as note.txt
StoredAtStart(text) ==
    LET o == upload_document_handler(
                Fresh, 1,
                [present |-> TRUE, filename |-> [name |-> "note", ext |-> "txt"],
                 content |-> text],
                [case_number |-> "", description |-> "", tags |-> "[]"],
                TRUE, TRUE, TRUE)
    IN  /\ users = o.users
        /\ documents = o.documents
        /\ document_summaries = o.document_summaries
        /\ document_redactions = o.document_redactions
        /\ document_timelines = o.document_timelines
        /\ chat_analyses = o.chat_analyses
        /\ audit_logs = o.audit_logs
        /\ files = o.files
        /\ in_flight = {}
        /\ tampered = {}
        /\ requests = 1

get_document ==
    \E user_id \in Identities, document_id \in DocumentIds, a \in AuditOutcomes :
        Do(get_document_handler(Cur, user_id, document_id, a[1]))

get_document_rows ==
    \E user_id \in Identities, document_id \in DocumentIds,
       kind \in {"summaries", "redactions", "timeline"} :
        Do(get_document_rows_handler(Cur, user_id, document_id, kind))

\* documents of two owners, their derived rows, and the reads of them
OwnerNext ==
    \/ upload_document
    \/ summarize_document
    \/ redact_document
    \/ generate_timeline
    \/ get_document
    \/ get_document_rows

OwnerSpec == Init /\ [][OwnerNext]_vars

\* one of the dated texts is stored; its timeline is generated and read, and
\* the document is read
TimelineInit == \E text \in TimelineTexts : StoredAtStart(text)

TimelineNext ==
    \/ generate_timeline
    \/ get_document
    \/ get_document_rows

TimelineSpec == TimelineInit /\ [][TimelineNext]_vars

\* the stored file of a document is replaced by a text long enough to be
\* summarized
Overwrite ==
    \E path \in DOMAIN files, text \in SummaryTexts :
        /\ files[path] \notin SummaryTexts
        /\ files' = [files EXCEPT ![path] = text]
        /\ tampered' = tampered \cup {path}
        /\ UNCHANGED <<users, documents, document_summaries, document_redactions,
                       document_timelines, chat_analyses, audit_logs, in_flight, requests>>

\* summarize_document with each of the three summary types
summarize_report ==
    \E user_id \in Identities, document_id \in DocumentIds,
       summary_type \in {"brief", "detailed", "key_points"},
       fault \in {"none", "commit1", "commit2"}, a \in AuditOutcomes :
        Do(summarize_document_handler(Cur, user_id, document_id, summary_type, fault,
                                      a[1], a[2]))

\* a stored note, given a long text and summarized
ReportInit == StoredAtStart(<<"a", " ", "n", "o", "t", "e", ".">>)

ReportNext ==
    \/ Overwrite
    \/ summarize_report

ReportSpec == ReportInit /\ [][ReportNext]_vars

analyze_chat ==
    \E user_id \in {1}, data \in ChatBodies, recent \in BOOLEAN,
       commit_ok \in BOOLEAN, a \in AuditOutcomes :
        Do(analyze_chat_handler(Cur, user_id, data, recent, commit_ok, a[1], a[2]))

\* chat prompts are analysed
ChatNext == analyze_chat

ChatSpec == Init /\ [][ChatNext]_vars

\* the requests that write documents and their files, with nothing else
\* touching the storage directory
StoreNext ==
    \/ upload_document
    \/ update_document
    \/ delete_document

StoreSpec == Init /\ [][StoreNext]_vars

\* uploads served side by side, each split at its commit
UploadNext ==
    \/ upload_begin
    \/ upload_commit

UploadSpec == Init /\ [][UploadNext]_vars

\* the requests of /api/analysis, on a log that logins and uploads fill
AnalysisNext ==
    \/ login
    \/ upload_document
    \/ get_audit_logs
    \/ get_forensic_data
    \/ export_analysis_data

AnalysisSpec == Init /\ [][AnalysisNext]_vars

\* the environment: a stored file is overwritten with another text
Rewrite ==
    \E path \in DOMAIN files :
        /\ files[path] # ReportBytes
        /\ files' = [files EXCEPT ![path] = ReportBytes]
        /\ tampered' = tampered \cup {path}
        /\ UNCHANGED <<users, documents, document_summaries, document_redactions,
                       document_timelines, chat_analyses, audit_logs, in_flight, requests>>

\* the requests that write document_summaries, on files that change
SummaryNext ==
    \/ upload_document
    \/ summarize_document
    \/ transcribe_document
    \/ Rewrite

SummarySpec == Init /\ [][SummaryNext]_vars

---------------------------------------------------------------------------
(* Every request the model sends, as a record, and its handler's result.   *)

Flags == BOOLEAN \X BOOLEAN

Requests ==
    {[op |-> "upload", user_id |-> r.user_id, file |-> r.file, form |-> r.form,
      commit_ok |-> c] : r \in UploadRequests, c \in BOOLEAN}
    \cup {[op |-> op, user_id |-> u, document_id |-> d] :
            op \in {"verify", "download"}, u \in Identities, d \in DocumentIds}
    \cup {[op |-> "update", user_id |-> u, document_id |-> d, data |-> b, commit_ok |-> c] :
            u \in Identities, d \in DocumentIds, b \in UpdateBodies, c \in BOOLEAN}
    \cup {[op |-> op, user_id |-> u, document_id |-> d, commit_ok |-> c] :
            op \in {"delete", "timeline", "transcribe"},
            u \in Identities, d \in DocumentIds, c \in BOOLEAN}
    \cup {[op |-> "login", data |-> b, commit_ok |-> c] : b \in LoginBodies, c \in BOOLEAN}
    \cup {[op |-> "export", user_id |-> u, export_type |-> e] :
            u \in Identities, e \in ExportTypes}
    \cup {[op |-> "summarize", user_id |-> u, document_id |-> d, summary_type |-> t,
           fault |-> f] :
            u \in Identities, d \in DocumentIds, t \in SummaryTypes,
            f \in {"none", "commit1", "commit2"}}
    \cup {[op |-> "redact", user_id |-> u, document_id |-> d, data |-> b, commit_ok |-> c] :
            u \in Identities, d \in DocumentIds, b \in RedactBodies, c \in BOOLEAN}

Handle(s, q, a1, a2) ==
    CASE q.op = "upload" ->
           upload_document_handler(s, q.user_id, q.file, q.form, q.commit_ok, a1, a2)
      [] q.op = "verify" -> verify_document_integrity_handler(s, q.user_id, q.document_id, a1)
      [] q.op = "download" -> download_document_handler(s, q.user_id, q.document_id, a1, a2)
      [] q.op = "update" ->
           update_document_handler(s, q.user_id, q.document_id, q.data, q.commit_ok, a1)
      [] q.op = "delete" ->
           delete_document_handler(s, q.user_id, q.document_id, q.commit_ok, a1, a2)
      [] q.op = "login" -> login_handler(s, q.data, q.commit_ok, a1)
      [] q.op = "export" -> export_analysis_data_handler(s, q.user_id, q.export_type, a1)
      [] q.op = "summarize" ->
           summarize_document_handler(s, q.user_id, q.document_id, q.summary_type,
                                      q.fault, a1, a2)
      [] q.op = "redact" ->
           redact_document_handler(s, q.user_id, q.document_id, q.data, q.commit_ok, a1, a2)
      [] q.op = "timeline" ->
           generate_timeline_handler(s, q.user_id, q.document_id, q.commit_ok, a1, a2)
      [] q.op = "transcribe" ->
           transcribe_document_handler(s, q.user_id, q.document_id, q.commit_ok, a1, a2)

\* the audit entries a request appended: those of o past the length of s
Added(s, o) == SubSeq(o.audit_logs, Len(s.audit_logs) + 1, Len(o.audit_logs))

ActionsOf(entries) == [i \in DOMAIN entries |-> entries[i].action]

\* the tables of the database
Tables(s) ==
    <<s.users, s.documents, s.document_summaries, s.document_redactions,
      s.document_timelines, s.chat_analyses, s.audit_logs>>

\* the file of document d is on disk with bytes no one changed from outside
Untouched(d) ==
    /\ documents[d].file_path \in DOMAIN files
    /\ documents[d].file_path \notin tampered

\* the file of document d is on disk and its digest is not the stored one
Mismatched(s, d) ==
    /\ s.documents[d].file_path \in DOMAIN s.files
    /\ sha256(s.files[s.documents[d].file_path]) # s.documents[d].content_hash

---------------------------------------------------------------------------
(* C1 *)

\* C1: after an upload answered 201 the new row's content_hash is the SHA-256
\* of the uploaded bytes and a verify of it answers verified=true; and in
\* every state a verify of a document whose file no one changed from outside
\* answers 200 with verified=true.
C1_UploadHashVerifies ==
    /\ \A r \in UploadRequests, a \in Flags :
         LET o == upload_document_handler(Cur, r.user_id, r.file, r.form, TRUE, a[1], a[2])
         IN  o.resp.status = 201 =>
               LET d == o.resp.document_id[1] IN
               /\ d \notin DOMAIN documents
               /\ o.documents[d].content_hash = sha256(r.file.content)
               /\ \A a3 \in BOOLEAN :
                    LET v == verify_document_integrity_handler(o, r.user_id, d, a3)
                    IN  v.resp.status = 200 /\ v.resp.verified = Some(TRUE)
    /\ \A d \in DOMAIN documents, a3 \in BOOLEAN :
         Untouched(d) =>
           LET v == verify_document_integrity_handler(Cur, documents[d].user_id, d, a3)
           IN  v.resp.status = 200 /\ v.resp.verified = Some(TRUE)

\* a verify of a document with an unchanged file ran and recorded verified=true
C1_Witness ==
    \E i \in DOMAIN audit_logs, d \in DOMAIN documents :
        /\ audit_logs[i].action = "document_integrity_verified"
        /\ audit_logs[i].resource_id = Some(str(d))
        /\ audit_logs[i].details = Some([verified |-> TRUE])
        /\ Untouched(d)

---------------------------------------------------------------------------
(* C2 *)

\* C2: a verify of a document whose file's digest differs from the stored
\* content_hash appends a dedicated integrity_violation audit entry for the
\* document before it answers verified=false.
C2_VerifyMismatchLogsViolation ==
    \A u \in Identities, d \in DOMAIN documents :
        LET o == verify_document_integrity_handler(Cur, u, d, TRUE) IN
        (OwnedDocument(Cur, d, u) /\ Mismatched(Cur, d)) =>
            /\ o.resp.verified = Some(FALSE)
            /\ \E i \in DOMAIN Added(Cur, o) :
                 /\ Added(Cur, o)[i].action
                      \in {"integrity_violation", "document_integrity_violation"}
                 /\ Added(Cur, o)[i].resource_id = Some(str(d))

---------------------------------------------------------------------------
(* C3 *)

\* what download does on a mismatch apart from the audit entry: an error,
\* no bytes, no downloaded entries; and bytes are served only on a match
DownloadGuarded(u, d, o) ==
    /\ o.resp.file # None =>
         /\ o.resp.status = 200
         /\ OwnedDocument(Cur, d, u)
         /\ ~Mismatched(Cur, d)
         /\ o.resp.file = Some(files[documents[d].file_path])
    /\ (OwnedDocument(Cur, d, u) /\ Mismatched(Cur, d)) =>
         /\ o.resp.status = 500
         /\ o.resp.file = None
         /\ \A i \in DOMAIN Added(Cur, o) :
              Added(Cur, o)[i].action
                \notin {"chain_of_custody_downloaded", "document_downloaded"}

\* C3 as stated: download serves the file only when the digest of its
\* current bytes equals the stored content_hash; on a mismatch it appends a
\* document_integrity_violation entry, answers with an error without bytes
\* and appends no downloaded entry.
C3_DownloadAlwaysRecordsViolation ==
    \A u \in Identities, d \in DOMAIN documents, a \in Flags :
        LET o == download_document_handler(Cur, u, d, a[1], a[2]) IN
        /\ DownloadGuarded(u, d, o)
        /\ (OwnedDocument(Cur, d, u) /\ Mismatched(Cur, d)) =>
             \E i \in DOMAIN Added(Cur, o) :
                 /\ Added(Cur, o)[i].action = "document_integrity_violation"
                 /\ Added(Cur, o)[i].resource_id = Some(str(d))

\* C3, amended: download serves the file only when the digest of its current
\* bytes equals the stored content_hash; on a mismatch it answers 500 without
\* bytes, appends no downloaded entry, and appends exactly one
\* document_integrity_violation entry for the document when the audit write
\* persists and nothing when that write fails.
C3_DownloadRecordsViolationIfPersisted ==
    \A u \in Identities, d \in DOMAIN documents, a \in Flags :
        LET o == download_document_handler(Cur, u, d, a[1], a[2]) IN
        /\ DownloadGuarded(u, d, o)
        /\ (OwnedDocument(Cur, d, u) /\ Mismatched(Cur, d)) =>
             IF a[1]
             THEN /\ ActionsOf(Added(Cur, o)) = <<"document_integrity_violation">>
                  /\ Added(Cur, o)[1].resource_id = Some(str(d))
             ELSE Added(Cur, o) = <<>>

\* a download of a document with a changed file ran and recorded the violation
C3_Witness ==
    \E i \in DOMAIN audit_logs, d \in DOMAIN documents :
        /\ audit_logs[i].action = "document_integrity_violation"
        /\ audit_logs[i].resource_id = Some(str(d))
        /\ Mismatched(Cur, d)

---------------------------------------------------------------------------
(* C4 *)

\* C4: the audit log is append-only: every step, whatever the request and
\* whether it fails or deletes a document, keeps every entry in its place
\* with all its fields.
C4_AuditLogAppendOnly ==
    [][/\ Len(audit_logs') >= Len(audit_logs)
       /\ SubSeq(audit_logs', 1, Len(audit_logs)) = audit_logs]_vars

\* a document was uploaded and deleted, and the entries of its upload are
\* still the first two of the log
C4_Witness ==
    /\ Len(audit_logs) >= 4
    /\ audit_logs[1].action = "chain_of_custody_uploaded"
    /\ audit_logs[2].action = "document_uploaded"
    /\ \E i \in DOMAIN audit_logs :
         /\ audit_logs[i].action = "document_deleted"
         /\ audit_logs[i].resource_id = audit_logs[1].resource_id
    /\ documents = <<>>

---------------------------------------------------------------------------
(* C5 *)

\* the answers that report success
Succeeded(o) == o.resp.status \in {200, 201}

AuditedRequests == {q \in Requests : q.op \in {"upload", "delete", "login", "redact", "export"}}

\* the actions a successful call of each audited endpoint records, in order
RecordedActions(op) ==
    CASE op = "upload" -> <<"chain_of_custody_uploaded", "document_uploaded">>
      [] op = "delete" -> <<"chain_of_custody_deleted", "document_deleted">>
      [] op = "redact" -> <<"chain_of_custody_redacted", "document_redacted">>
      [] op = "login" -> <<"login_successful">>
      [] op = "export" -> <<"data_exported">>

\* those of them whose write persisted
Persisted(names, a1, a2) ==
    (IF a1 THEN <<names[1]>> ELSE <<>>)
    \o (IF Len(names) = 2 /\ a2 THEN <<names[2]>> ELSE <<>>)

\* C5 as stated: each successful upload, delete, login, redact or export
\* appends exactly one audit entry, and its timestamp is not null.
C5_ExactlyOneEntryPerCall ==
    \A q \in AuditedRequests, a \in Flags :
        LET o == Handle(Cur, q, a[1], a[2]) IN
        Succeeded(o) =>
            /\ Len(Added(Cur, o)) = 1
            /\ Added(Cur, o)[1].timestamp # None

\* C5, amended: a successful upload, delete or redact appends
\* chain_of_custody_<action> and then document_<action>, a successful login
\* appends login_successful and a successful export data_exported; an entry
\* whose write fails is missing and the others are there; every entry
\* appended has a timestamp that is not null.
C5_EntriesPerCall ==
    \A q \in AuditedRequests, a \in Flags :
        LET o == Handle(Cur, q, a[1], a[2]) IN
        Succeeded(o) =>
            /\ ActionsOf(Added(Cur, o)) = Persisted(RecordedActions(q.op), a[1], a[2])
            /\ \A i \in DOMAIN Added(Cur, o) : Added(Cur, o)[i].timestamp # None

\* an upload recorded its two entries side by side and an export its one,
\* all with timestamps
C5_Witness ==
    /\ \E i \in DOMAIN audit_logs :
         /\ i + 1 \in DOMAIN audit_logs
         /\ audit_logs[i].action = "chain_of_custody_uploaded"
         /\ audit_logs[i + 1].action = "document_uploaded"
         /\ audit_logs[i + 1].resource_id = audit_logs[i].resource_id
    /\ \E i \in DOMAIN audit_logs : audit_logs[i].action = "data_exported"
    /\ \A i \in DOMAIN audit_logs : audit_logs[i].timestamp # None

---------------------------------------------------------------------------
(* C6 *)

---------------------------------------------------------------------------
(* C7 *)

\* the file names an upload may carry
FileNames == {f.filename : f \in UploadFiles} \cup {[name |-> "copy", ext |-> "txt"]}

\* a second upload, by anyone under any allowed name, of bytes whose hash a
\* row holds: 409 naming the first such row, tables and files as before
Rejected(s, content, first) ==
    \A u \in Identities, n \in {f \in FileNames : allowed_file(f)}, form \in UploadForms,
       c \in BOOLEAN, a \in Flags :
        LET o == upload_document_handler(
                     s, u, [present |-> TRUE, filename |-> n, content |-> content],
                     form, c, a[1], a[2])
        IN  /\ o.resp.status = 409
            /\ o.resp.existing_document_id = Some(first)
            /\ o.documents = s.documents
            /\ o.files = s.files
            /\ o.audit_logs = s.audit_logs

\* C7: an upload of bytes identical to those of a stored document is answered
\* 409 with existing_document_id the id of that document, the first with
\* these bytes, and creates no Document row and no file: for the bytes on
\* disk of every document whose file no one changed, and for the bytes of
\* every upload whose hash a row holds.
C7_DuplicateUploadConflict ==
    /\ \A d \in DOMAIN documents :
         Untouched(d) => Rejected(Cur, files[documents[d].file_path], d)
    /\ \A f \in UploadFiles :
         LET same == {d \in DOMAIN documents :
                         documents[d].content_hash = sha256(f.content)}
         IN  (f.present /\ same # {}) => Rejected(Cur, f.content, Min(same))

\* two documents are stored and the bytes of the second are sent again, by
\* the other user: the answer is 409 naming the second
C7_Witness ==
    /\ Cardinality(DOMAIN documents) = 2
    /\ \E r \in UploadRequests :
         LET o == upload_document_handler(Cur, r.user_id, r.file, r.form, TRUE, TRUE, TRUE)
         IN  /\ o.resp.status = 409
             /\ o.resp.existing_document_id = Some(2)
             /\ documents[2].user_id # r.user_id

---------------------------------------------------------------------------
(* C8 *)

\* C8: a request answered 500 leaves the database as it was before the
\* request: no document, summary, redaction or timeline row, no status change
\* and no audit entry of the request remains.
C8_FailedRequestLeavesDatabase ==
    \A q \in Requests, a \in Flags :
        LET o == Handle(Cur, q, a[1], a[2]) IN
        o.resp.status = 500 => Tables(o) = Tables(Cur)

---------------------------------------------------------------------------
(* C9 *)

\* C9: no step changes the content_hash of a document that exists before and
\* after it, also when a verify, a download or a processing request meets a
\* changed file; and an update that succeeds changes nothing of the row but
\* case_number, description and tags.
C9_ContentHashNeverChanges ==
    /\ [][\A d \in DOMAIN documents \cap DOMAIN documents' :
            documents'[d].content_hash = documents[d].content_hash]_vars
    /\ [](\A u \in Identities, d \in DOMAIN documents, b \in UpdateBodies,
             c \in BOOLEAN, a1 \in BOOLEAN :
            LET o == update_document_handler(Cur, u, d, b, c, a1) IN
            /\ DOMAIN o.documents = DOMAIN documents
            /\ \A e \in DOMAIN documents :
                 [o.documents[e] EXCEPT !.case_number = "", !.description = "", !.tags = ""]
                   = [documents[e] EXCEPT !.case_number = "", !.description = "",
                                          !.tags = ""]
            /\ \A e \in DOMAIN documents \ {d} : o.documents[e] = documents[e])

\* a verify met a changed file and recorded verified=false, the row was
\* updated, and the stored hash is still not the digest of the file
C9_Witness ==
    \E i \in DOMAIN audit_logs, d \in DOMAIN documents :
        /\ audit_logs[i].action = "document_integrity_verified"
        /\ audit_logs[i].resource_id = Some(str(d))
        /\ audit_logs[i].details = Some([verified |-> FALSE])
        /\ documents[d].case_number = "c"
        /\ Mismatched(Cur, d)

---------------------------------------------------------------------------
(* C10 *)

ProcessingRequests ==
    {q \in Requests : q.op \in {"summarize", "redact", "timeline", "transcribe"}}

\* C10: a summarize, redact, timeline or transcribe request on a pending
\* document moves processing_status out of pending: to completed when the
\* request succeeds, to error when it fails.
C10_ProcessingLeavesPending ==
    \A q \in ProcessingRequests, a \in Flags :
        LET o == Handle(Cur, q, a[1], a[2]) IN
        (/\ OwnedDocument(Cur, q.document_id, q.user_id)
         /\ documents[q.document_id].processing_status = "pending") =>
            o.documents[q.document_id].processing_status
              = IF Succeeded(o) THEN "completed" ELSE "error"

---------------------------------------------------------------------------
(* C11 *)

\* models.Document.processing_status: the values named by the column
ProcessingStatuses == {"pending", "processing", "completed", "error"}

\* how far along pending -> processing -> completed | error a status is
StatusRank(status) ==
    CASE status = "pending" -> 0
      [] status = "processing" -> 1
      [] status \in {"completed", "error"} -> 2

\* C11: in every reachable state each document's processing_status is one of
\* pending, processing, completed, error, and a step that changes it moves it
\* forward along pending -> processing -> completed | error: a completed
\* document never returns to pending or processing.
C11_StatusMovesForward ==
    /\ [](\A d \in DOMAIN documents : documents[d].processing_status \in ProcessingStatuses)
    /\ [][\A d \in DOMAIN documents \cap DOMAIN documents' :
            documents'[d].processing_status # documents[d].processing_status =>
                StatusRank(documents'[d].processing_status)
                  > StatusRank(documents[d].processing_status)]_vars

\* a document was summarized, so completed, and then updated: it is still
\* completed
C11_Witness ==
    \E d \in DOMAIN documents, i \in DOMAIN audit_logs, j \in DOMAIN audit_logs :
        /\ i < j
        /\ audit_logs[i].action = "document_summarized"
        /\ audit_logs[j].action = "document_updated"
        /\ audit_logs[i].resource_id = Some(str(d))
        /\ audit_logs[j].resource_id = Some(str(d))
        /\ documents[d].processing_status = "completed"

---------------------------------------------------------------------------
(* C12 *)

\* the password fails at least one of the five rules
Weak(password) ==
    \/ Len(password) < 8
    \/ ~\E i \in DOMAIN password : password[i] \in Upper
    \/ ~\E i \in DOMAIN password : password[i] \in Lower
    \/ ~\E i \in DOMAIN password : password[i] \in Digit
    \/ ~\E i \in DOMAIN password : password[i] \in SpecialChars

\* register bodies of a new user with every password of the model
RegisterProbes ==
    RegisterBodies
    \cup {[username |-> <<"f", "a", "y">>, email |-> <<"f">> \o at_x_org, password |-> p,
           role |-> None] : p \in Passwords \cup {<<>>}}

\* C12: register and change-password reject every password that fails one of
\* the five rules (length at least 8, an uppercase letter, a lowercase letter,
\* a digit, a special character): register answers 400 and creates no user,
\* change-password answers 400, or 401 when the current password is wrong,
\* and leaves the stored hash as it was; no stored or pending hash is that of
\* such a password.
C12_WeakPasswordRejected ==
    /\ \A data \in RegisterProbes, c \in BOOLEAN, a1 \in BOOLEAN :
         Weak(data.password) =>
            /\ RegisterRejection(Cur, data) = 400
            /\ register_handler(Cur, data, c, a1).resp.status = 400
            /\ register_handler(Cur, data, c, a1).users = users
    /\ \A u \in DOMAIN users, old \in Passwords, new \in Passwords \cup {<<>>},
          c \in BOOLEAN, a1 \in BOOLEAN :
         LET o == change_password_handler(
                      Cur, u, [current_password |-> old, new_password |-> new], c, a1)
         IN  Weak(new) =>
               /\ o.resp.status = IF check_password(users[u], old) \/ new = <<>>
                                  THEN 400 ELSE 401
               /\ o.users = users
    /\ \A u \in DOMAIN users : ~Weak(users[u].password_hash[2])
    /\ \A user \in in_flight : ~Weak(user.password_hash[2])

\* a user has changed the password, and in this state a register with a
\* password without a special character and a change to such a password, the
\* current one given rightly, are both answered 400
C12_Witness ==
    /\ \E i \in DOMAIN audit_logs : audit_logs[i].action = "password_changed"
    /\ \E data \in RegisterBodies :
         /\ Weak(data.password)
         /\ data.email # <<>>
         /\ register_handler(Cur, data, TRUE, TRUE).resp.status = 400
    /\ \E u \in DOMAIN users, data \in ChangeBodies :
         /\ Weak(data.new_password)
         /\ data.new_password # <<>>
         /\ check_password(users[u], data.current_password)
         /\ change_password_handler(Cur, u, data, TRUE, TRUE).resp.status = 400

---------------------------------------------------------------------------
(* C13 *)

\* models.User.role: the values named by the column
Roles == {"user", "admin", "forensic_analyst"}

\* C13: in every reachable state each user's role is one of user, admin,
\* forensic_analyst, whatever the bodies of the register requests.
C13_RoleEnumerated == \A u \in DOMAIN users : users[u].role \in Roles

---------------------------------------------------------------------------
(* C14 *)

\* a row of users has the name or the mail address, trimmed and lowercased
Taken(username, email) ==
    \E i \in DOMAIN users :
        \/ strip_lower(users[i].username) = strip_lower(username)
        \/ strip_lower(users[i].email) = strip_lower(email)

\* C14: after any sequence and any interleaving of register requests no two
\* users share a username or an email, compared trimmed and lowercased; a
\* register whose name or address is taken creates no user, whether it meets
\* the row at its checks (409, or 400 for another fault of the body) or only
\* at its commit (500).
C14_UsersUnique ==
    /\ \A u \in DOMAIN users, v \in DOMAIN users :
         u # v =>
            /\ strip_lower(users[u].username) # strip_lower(users[v].username)
            /\ strip_lower(users[u].email) # strip_lower(users[v].email)
    /\ \A data \in RegisterBodies, c \in BOOLEAN, a1 \in BOOLEAN :
         LET o == register_handler(Cur, data, c, a1) IN
         Taken(data.username, data.email) =>
            o.users = users /\ o.resp.status \in {400, 409}
    /\ \A user \in in_flight, c \in BOOLEAN, a1 \in BOOLEAN :
         LET o == register_commit_handler(Cur, user, c, a1) IN
         Taken(user.username, user.email) =>
            o.users = users /\ o.resp.status = 500

\* two registers of one name passed their checks side by side; one has
\* committed, the other is still before its commit
C14_Witness ==
    \E user \in in_flight, i \in DOMAIN users :
        /\ users[i].username = user.username
        /\ users[i].email # user.email
        /\ \E j \in DOMAIN audit_logs :
             /\ audit_logs[j].action = "user_registered"
             /\ audit_logs[j].resource_id = Some(str(i))

---------------------------------------------------------------------------
(* C15 *)

\* every table but the audit log
Records(s) ==
    <<s.users, s.documents, s.document_summaries, s.document_redactions,
      s.document_timelines, s.chat_analyses>>

\* the requests that carry the token of user_id
RequestsOf(user_id) == {q \in Requests : "user_id" \in DOMAIN q /\ q.user_id = user_id}

\* logout answers 200, leaves every table but the audit log and every file
\* as they were, and each request under the same token is answered from the
\* state after the logout as it is from the state before it
LogoutOnlyAudits(user_id, o) ==
    /\ o.resp.status = 200
    /\ Records(o) = Records(Cur)
    /\ o.files = files
    /\ \A i \in DOMAIN audit_logs : o.audit_logs[i] = audit_logs[i]
    /\ \A i \in DOMAIN Added(Cur, o) :
         /\ Added(Cur, o)[i].action = "logout"
         /\ Added(Cur, o)[i].user_id = Some(user_id)
    /\ \A q \in RequestsOf(user_id) :
         LET after == Handle(o, q, TRUE, TRUE)
             before == Handle(Cur, q, TRUE, TRUE) IN
         /\ after.resp.status = before.resp.status
         /\ Records(after) = Records(before)
         /\ after.files = before.files
         /\ ActionsOf(Added(o, after)) = ActionsOf(Added(Cur, before))

\* C15 as stated: logout appends a single logout audit entry and changes
\* nothing else; the token presented at logout is accepted afterwards as before.
C15_LogoutAppendsOneEntry ==
    \A user_id \in Identities, a1 \in BOOLEAN :
        LET o == logout_handler(Cur, user_id, a1) IN
        /\ LogoutOnlyAudits(user_id, o)
        /\ Len(Added(Cur, o)) = 1

\* C15, amended: logout appends a single logout audit entry when the write of
\* the entry persists and none when it fails, and changes nothing else; the
\* token presented at logout is accepted afterwards as before.
C15_LogoutAppendsOneEntryIfPersisted ==
    \A user_id \in Identities, a1 \in BOOLEAN :
        LET o == logout_handler(Cur, user_id, a1) IN
        /\ LogoutOnlyAudits(user_id, o)
        /\ Len(Added(Cur, o)) = IF a1 THEN 1 ELSE 0

\* a user logged out and then uploaded a document under the same token
C15_Witness ==
    \E i \in DOMAIN audit_logs, j \in DOMAIN audit_logs :
        /\ i < j
        /\ audit_logs[i].action = "logout"
        /\ audit_logs[j].action = "document_uploaded"
        /\ audit_logs[j].user_id = audit_logs[i].user_id

---------------------------------------------------------------------------
(* C16 *)

\* the ids of the timeline rows of a document, and the rows in id order
TimelineIds(s, d) ==
    {i \in DOMAIN s.document_timelines : s.document_timelines[i].document_id = d}

RECURSIVE InIdOrder(_, _)
InIdOrder(table, ids) ==
    IF ids = {} THEN <<>>
    ELSE LET i == CHOOSE x \in ids : \A y \in ids : x <= y
         IN  <<table[i]>> \o InIdOrder(table, ids \ {i})

\* the timeline requests
TimelineRequests ==
    {q \in Requests : q.op = "timeline"}

\* C16: after a successful timeline request the document's timeline rows are
\* exactly the events extracted from the file by that request, in their order
\* (rows of earlier requests are gone, rows of other documents stay), and the
\* same request repeated on the unchanged file leaves the same number of rows.
C16_TimelineReplaced ==
    \A q \in TimelineRequests, f \in Flags :
        LET o == Handle(Cur, q, f[1], f[2])
            d == q.document_id
        IN
        o.resp.status = 200 =>
            LET text == extract_text_from_file(documents[d].file_path,
                                               documents[d].file_type,
                                               files[documents[d].file_path]).text[1]
                events == extract_timeline_events_basic(text)
                rows == InIdOrder(o.document_timelines, TimelineIds(o, d))
                again == Handle(o, q, f[1], f[2])
            IN
            /\ Len(rows) = Len(events)
            /\ \A i \in DOMAIN rows :
                 /\ rows[i].event_date = events[i].date
                 /\ rows[i].event_description = events[i].description
                 /\ rows[i].confidence_score = events[i].confidence
            /\ \A e \in DocumentIds \ {d} :
                 /\ TimelineIds(o, e) = TimelineIds(Cur, e)
                 /\ \A i \in TimelineIds(o, e) :
                      o.document_timelines[i] = document_timelines[i]
            /\ again.resp.status = 200
            /\ Cardinality(TimelineIds(again, d)) = Cardinality(TimelineIds(o, d))

\* a document whose timeline was generated twice and holds rows
C16_Witness ==
    \E d \in DOMAIN documents :
        /\ TimelineIds(Cur, d) # {}
        /\ \E i \in DOMAIN audit_logs, j \in DOMAIN audit_logs :
             /\ i < j
             /\ audit_logs[i].action = "document_timeline_generated"
             /\ audit_logs[j].action = "document_timeline_generated"
             /\ audit_logs[i].resource_id = Some(str(d))
             /\ audit_logs[j].resource_id = Some(str(d))

---------------------------------------------------------------------------
(* C17 *)

\* the ids of the summary rows of a document and a type
SummaryIds(s, d, type) ==
    {i \in DOMAIN s.document_summaries :
        /\ s.document_summaries[i].document_id = d
        /\ s.document_summaries[i].summary_type = type}

\* the summary types the code writes
StoredSummaryTypes == {"brief", "detailed", "key_points", "transcription"}

\* the requests that write a summary row, the type of the row and its content
SummaryRequests == {q \in Requests : q.op \in {"summarize", "transcribe"}}

TypeOf(q) == IF q.op = "summarize" THEN q.summary_type ELSE "transcription"

ContentOf(q) ==
    LET document == documents[q.document_id] IN
    IF q.op = "transcribe" THEN Transcription(document)
    ELSE generate_summary_basic(files[document.file_path], q.summary_type)

\* C17: a document has at most one summary row per summary type after any
\* sequence of summarize and transcribe requests; a request for a type that
\* has a row leaves the set of rows as it is and puts its own content into
\* that row, one for a type without a row adds exactly that row.
C17_OneSummaryPerType ==
    /\ \A d \in DocumentIds, type \in StoredSummaryTypes :
         Cardinality(SummaryIds(Cur, d, type)) <= 1
    /\ \A q \in SummaryRequests, f \in Flags :
         LET o == Handle(Cur, q, f[1], f[2])
             d == q.document_id
             had == SummaryIds(Cur, d, TypeOf(q))
             has == SummaryIds(o, d, TypeOf(q))
         IN
         o.resp.status = 200 =>
            /\ Cardinality(has) = 1
            /\ had # {} => has = had
            /\ DOMAIN o.document_summaries = DOMAIN document_summaries \cup has
            /\ \A i \in has : o.document_summaries[i].content = ContentOf(q)
            /\ \A i \in DOMAIN document_summaries \ has :
                 o.document_summaries[i] = document_summaries[i]

\* a document was summarized and its file was rewritten since: the row holds
\* the summary of the old text, and the next request will replace it
C17_Witness ==
    \E d \in DOMAIN documents, i \in DOMAIN document_summaries :
        /\ document_summaries[i].document_id = d
        /\ document_summaries[i].summary_type = "brief"
        /\ documents[d].file_path \in DOMAIN files
        /\ files[documents[d].file_path] = ReportBytes
        /\ document_summaries[i].content # generate_summary_basic(ReportBytes, "brief")

---------------------------------------------------------------------------
(* C18 *)

\* the offsets (from 0) at which sub occurs in text
Occurrences(text, sub) ==
    {k \in 0..(Len(text) - Len(sub)) : SubSeq(text, k + 1, k + Len(sub)) = sub}

\* the occurrence at offset k has no letter, digit or underscore next to it
Standalone(text, k, sub) ==
    /\ k = 0 \/ text[k] \notin WordChar
    /\ k + Len(sub) = Len(text) \/ text[k + Len(sub) + 1] \notin WordChar

\* the text of a stored document
TextOf(d) == files[documents[d].file_path]

\* the entries of type ssn among redactions_made
SsnEntries(made) == {i \in DOMAIN made : made[i].type = "ssn"}

\* the occurrence of the number at offset k has its entry: one entry of type
\* ssn starts there, and it ends where the number ends and records it
RecordedOnce(made, k) ==
    /\ Cardinality({i \in SsnEntries(made) : made[i].start = k}) = 1
    /\ \A i \in SsnEntries(made) :
         made[i].start = k => made[i].end = k + Len(Ssn) /\ made[i].original = Ssn

\* C18 as stated: redacting a text that contains 123-45-6789 replaces every
\* occurrence with the marker and records exactly one entry of type ssn for
\* it, whose start and end are its offsets in the input text.
C18_SsnRedacted ==
    \A d \in DOMAIN documents :
        LET text == TextOf(d)
            done == redact_text(text, DefaultRedactionText)
            found == Occurrences(text, Ssn)
        IN
        /\ \A k \in found : RecordedOnce(done.redactions_made, k)
        /\ Cardinality(SsnEntries(done.redactions_made)) = Cardinality(found)
        /\ Occurrences(done.redacted_text, Ssn) = {}
        /\ found # {} => Occurrences(done.redacted_text, DefaultRedactionText) # {}

\* C18, amended: redacting a text that contains 123-45-6789 with no letter,
\* digit or underscore next to it replaces that occurrence with the marker
\* and records exactly one entry of type ssn for it, whose start and end are
\* its offsets in the input text; an occurrence glued to a letter, a digit or
\* an underscore has no entry.
C18_StandaloneSsnRedacted ==
    \A d \in DOMAIN documents :
        LET text == TextOf(d)
            done == redact_text(text, DefaultRedactionText)
            found == {k \in Occurrences(text, Ssn) : Standalone(text, k, Ssn)}
            left == Occurrences(done.redacted_text, Ssn)
        IN
        /\ \A k \in found : RecordedOnce(done.redactions_made, k)
        /\ Cardinality(SsnEntries(done.redactions_made)) = Cardinality(found)
        /\ \A k \in left : ~Standalone(done.redacted_text, k, Ssn)
        /\ Cardinality(Occurrences(done.redacted_text, DefaultRedactionText))
             >= Cardinality(found)

\* a stored redaction row of the number, at its offset in the document
C18_Witness ==
    \E i \in DOMAIN document_redactions :
        LET row == document_redactions[i]
            text == TextOf(row.document_id)
        IN
        /\ row.redaction_type = "pii"
        /\ row.original_text = Ssn
        /\ row.start_position \in Occurrences(text, Ssn)
        /\ Standalone(text, row.start_position, Ssn)
        /\ row.end_position = row.start_position + Len(Ssn)

---------------------------------------------------------------------------
(* C19 *)

\* C19: for every redaction row, of the built-in or of custom patterns, start
\* and end are offsets in the document's text: the text from start to end is
\* the row's recorded original.
C19_OffsetsInOriginal ==
    \A i \in DOMAIN document_redactions :
        LET row == document_redactions[i]
            text == TextOf(row.document_id)
        IN
        /\ row.end_position <= Len(text)
        /\ SubSeq(text, row.start_position + 1, row.end_position) = row.original_text

---------------------------------------------------------------------------
(* C20 *)

\* the requests that touch a document's custody
CustodyRequests ==
    {q \in Requests : q.op \in {"upload", "download", "summarize", "redact", "timeline",
                                "transcribe", "delete"}}

\* the <action> of each of them
CustodyAction(op) ==
    CASE op = "upload" -> "uploaded"
      [] op = "download" -> "downloaded"
      [] op = "summarize" -> "summarized"
      [] op = "redact" -> "redacted"
      [] op = "timeline" -> "timeline_generated"
      [] op = "transcribe" -> "transcribed"
      [] op = "delete" -> "deleted"

\* the document of the request: the one created, for an upload
CustodyDocument(q, o) == IF q.op = "upload" THEN o.resp.document_id[1] ELSE q.document_id

\* entry is the custody entry of request q answered by o
IsCustodyEntry(entry, q, o) ==
    /\ entry.action = "chain_of_custody_" \o CustodyAction(q.op)
    /\ entry.resource_type = "document"
    /\ entry.resource_id = Some(str(CustodyDocument(q, o)))
    /\ entry.user_id = Some(q.user_id)

---------------------------------------------------------------------------
(* C21 *)

\* the query strings the audit-log claims range over
AuditProbes ==
    [page : {None, Some(2)},
     per_page : {None, Some(1)},
     action : {None, Some(<<"L", "O", "G", "I", "N">>), Some(<<"d", "_", "d">>)},
     resource_type : {None, Some("user")},
     user_id : {None, Some(2)},
     start_date : {None, Some([ok |-> TRUE, at |-> 2])},
     end_date : {None, Some([ok |-> TRUE, at |-> 2])}]

\* the users who may read the log
Privileged == {u \in DOMAIN users : users[u].role \in {"admin", "forensic_analyst"}}

\* entry matches every filter that args supplies
MatchesFilters(entry, args) ==
    /\ args.action # None =>
          Contains(lower(Spelling[entry.action]), lower(args.action[1]))
    /\ args.resource_type # None => entry.resource_type = args.resource_type[1]
    /\ args.user_id # None => entry.user_id = args.user_id
    /\ args.start_date # None => entry.timestamp[1] >= args.start_date[1].at
    /\ args.end_date # None => entry.timestamp[1] <= args.end_date[1].at

\* the page size a query asks for, at most 200
PageSize(args) ==
    LET asked == IF args.per_page = None THEN 50 ELSE args.per_page[1]
    IN  IF asked < 200 THEN asked ELSE 200

\* C21: an audit-log query returns only entries that match every supplied
\* filter (the action contains the given text, whatever the case; resource
\* type and actor are equal; the timestamp is within the dates), newest
\* first, at most min(per_page, 200) of them on a page.
C21_QueryReturnsMatches ==
    \A user_id \in Privileged, args \in AuditProbes :
        LET o == get_audit_logs_handler(Cur, user_id, args, TRUE)
            items == o.resp.audit_logs
        IN
        /\ o.resp.status = 200
        /\ \A i \in DOMAIN items :
             /\ MatchesFilters(items[i], args)
             /\ \E j \in DOMAIN audit_logs : audit_logs[j] = items[i]
        /\ \A i \in DOMAIN items, j \in DOMAIN items :
             i < j => items[i].timestamp[1] >= items[j].timestamp[1]
        /\ Len(items) <= PageSize(args)

---------------------------------------------------------------------------
(* C22 *)

\* C22: under any interleaving of upload requests, of one user or of
\* several, no two Document rows have the same content_hash.
C22_HashesDistinct ==
    \A i \in DOMAIN documents, j \in DOMAIN documents :
        i # j => documents[i].content_hash # documents[j].content_hash

---------------------------------------------------------------------------
(* C23 *)

\* C23: after any sequence of upload, update and delete requests, those that
\* end in an error included, every Document row has its file at file_path
\* and every stored file belongs to a Document row.
C23_RowsAndFilesAgree ==
    /\ \A d \in DOMAIN documents : documents[d].file_path \in DOMAIN files
    /\ \A path \in DOMAIN files : \E d \in DOMAIN documents : documents[d].file_path = path

---------------------------------------------------------------------------
(* C24 *)

\* the document-scoped requests that write or serve a file
ScopedRequests ==
    {q \in Requests : q.op \in {"download", "update", "verify", "summarize", "redact",
                                "timeline", "transcribe"}}

\* document d exists and belongs to another user than user_id
Foreign(user_id, d) == d \in DOMAIN documents /\ documents[d].user_id # user_id

\* o answers 404 and nothing else: no field of the response is filled, no
\* table, the audit log included, and no file has changed
BareNotFound(o) ==
    /\ o.resp = Response(o.resp.op, 404)
    /\ Tables(o) = Tables(Cur)
    /\ o.files = files

\* C24: get, download, update, verify, summarize, redact, timeline,
\* transcribe and the reads of summaries, redactions and timeline answer a
\* request that names another user's document with 404, with none of the
\* document's data, and change no state, the audit log included.
C24_ForeignDocumentNotFound ==
    /\ \A q \in ScopedRequests, f \in Flags :
         Foreign(q.user_id, q.document_id) => BareNotFound(Handle(Cur, q, f[1], f[2]))
    /\ \A user_id \in Identities, d \in DocumentIds :
         Foreign(user_id, d) =>
            /\ \A a1 \in BOOLEAN : BareNotFound(get_document_handler(Cur, user_id, d, a1))
            /\ \A kind \in {"summaries", "redactions", "timeline"} :
                 BareNotFound(get_document_rows_handler(Cur, user_id, d, kind))

\* a document with derived rows, which its owner has read and reads again
\* and which another user is refused
C24_Witness ==
    \E d \in DOMAIN documents, other \in DOMAIN users :
        /\ Foreign(other, d)
        /\ \E kind \in {"summaries", "redactions", "timeline"} :
             /\ get_document_rows_handler(Cur, documents[d].user_id, d, kind).resp.rows # {}
             /\ get_document_rows_handler(Cur, other, d, kind).resp.status = 404
        /\ get_document_handler(Cur, other, d, TRUE).resp.status = 404
        /\ \E i \in DOMAIN audit_logs : audit_logs[i].action = "document_accessed"

---------------------------------------------------------------------------
(* C25 *)

\* the users who may not read the log
Others == DOMAIN users \ Privileged

\* o answers 403 and nothing else, and no table, the audit log included,
\* has changed
BareForbidden(o) ==
    /\ o.resp = Response(o.resp.op, 403)
    /\ Tables(o) = Tables(Cur)
    /\ o.files = files

\* C25: an audit-log query, a forensic-data request and an export request
\* of a user whose role is neither admin nor forensic_analyst are answered
\* 403 with no audit, document or chat data, and append no audit entry.
C25_UnprivilegedForbidden ==
    \A user_id \in Others, a1 \in BOOLEAN :
        /\ \A args \in AuditProbes :
             BareForbidden(get_audit_logs_handler(Cur, user_id, args, a1))
        /\ \A resource_id \in DocumentIds, resource_type \in ForensicTypes :
             BareForbidden(get_forensic_data_handler(Cur, user_id, resource_id,
                                                     resource_type, a1))
        /\ \A export_type \in ExportTypes :
             BareForbidden(export_analysis_data_handler(Cur, user_id, export_type, a1))

\* there are a document and audit entries, which an admin is shown and a
\* plain user is refused
C25_Witness ==
    \E user_id \in Others, admin \in Privileged :
        /\ documents # <<>>
        /\ get_audit_logs_handler(Cur, admin, NoFilters, TRUE).resp.audit_logs # <<>>
        /\ get_audit_logs_handler(Cur, user_id, NoFilters, TRUE).resp.status = 403
        /\ \E d \in DOMAIN documents :
             get_forensic_data_handler(Cur, user_id, d, "document", TRUE).resp.status = 403
        /\ \E export_type \in ExportTypes :
             export_analysis_data_handler(Cur, user_id, export_type, TRUE).resp.status = 403

---------------------------------------------------------------------------
(* C26 *)

\* the login bodies the claim ranges over: known and unknown names, in any
\* case and padding, with the first password, a changed one and a wrong one
LoginProbes ==
    [username : {<<" ", "A", "l", "i", "c", "e", " ">>, alice, bob, carol, at_x_org},
     password : {Passw0rd, Passw0rd2, <<"w", "r", "o", "n", "g">>}]

\* the name of data belongs to an active account of s with this password
Credentialed(s, data) ==
    \E id \in DOMAIN s.users :
        /\ s.users[id].username = strip_lower(data.username)
        /\ s.users[id].password_hash = generate_password_hash(data.password)
        /\ s.users[id].is_active

\* s with the account id switched off
Deactivated(s, id) == [s EXCEPT !.users[id].is_active = FALSE]

\* the states login is asked in: the current one, and the current one with
\* one account switched off
LoginStates == {Cur} \cup {Deactivated(Cur, id) : id \in DOMAIN users}

\* login, asked in s, issues a token only to an active account with the
\* right password, and refuses every other named attempt with 401, no
\* token and last_login as it was
LoginRefused(s, data, o) ==
    /\ o.resp.access_token # None => Credentialed(s, data)
    /\ ~Credentialed(s, data) =>
          /\ o.resp.status = 401
          /\ o.resp.access_token = None
          /\ o.users = s.users

\* C26: login returns an access token only when the username exists, the
\* password matches and the account is active; every other attempt that
\* supplied both returns 401, issues no token, leaves last_login unchanged
\* and appends exactly one login_failed audit entry.
C26_FailedLoginAlwaysRecorded ==
    \A s \in LoginStates, data \in LoginProbes, commit_ok \in BOOLEAN, a1 \in BOOLEAN :
        LET o == login_handler(s, data, commit_ok, a1) IN
        /\ LoginRefused(s, data, o)
        /\ ~Credentialed(s, data) => ActionsOf(Added(s, o)) = <<"login_failed">>

\* C26, amended: login returns an access token only when the username
\* exists, the password matches and the account is active; every other
\* attempt that supplied both returns 401, issues no token, leaves
\* last_login unchanged and appends exactly one login_failed audit entry
\* when the audit write persists and none when that write fails.
C26_FailedLoginRecordedIfPersisted ==
    \A s \in LoginStates, data \in LoginProbes, commit_ok \in BOOLEAN, a1 \in BOOLEAN :
        LET o == login_handler(s, data, commit_ok, a1) IN
        /\ LoginRefused(s, data, o)
        /\ ~Credentialed(s, data) =>
              ActionsOf(Added(s, o)) = IF a1 THEN <<"login_failed">> ELSE <<>>

\* a login with a wrong password was refused and recorded, a user who has
\* logged in is on record, and the same name with the right password is
\* given a token
C26_Witness ==
    /\ \E i \in DOMAIN audit_logs : audit_logs[i].action = "login_failed"
    /\ \E id \in DOMAIN users :
         /\ users[id].last_login # None
         /\ \E data \in LoginProbes :
              /\ strip_lower(data.username) = users[id].username
              /\ login_handler(Cur, data, TRUE, TRUE).resp.access_token # None
         /\ \E data \in LoginProbes :
              /\ strip_lower(data.username) = users[id].username
              /\ login_handler(Cur, data, TRUE, TRUE).resp.status = 401

---------------------------------------------------------------------------
(* C27 *)

\* C27: a forensic-data request of type document, made by an admin or a
\* forensic_analyst for an existing document whose file is on disk, answers
\* 200 with integrity_status.verified true exactly when the SHA-256 of the
\* file's current bytes equals the stored content_hash, and appends one
\* forensic_data_accessed audit entry.
C27_ForensicsVerifiesFile ==
    \A user_id \in Privileged, d \in DOMAIN documents :
        documents[d].file_path \in DOMAIN files =>
           LET o == get_forensic_data_handler(Cur, user_id, d, "document", TRUE) IN
           /\ o.resp.status = 200
           /\ o.resp.integrity_status
                 = Some([verified |-> calculate_file_hash(files[documents[d].file_path])
                                         = documents[d].content_hash])
           /\ ActionsOf(Added(Cur, o)) = <<"forensic_data_accessed">>

---------------------------------------------------------------------------
(* C28 *)

\* the sentences of text, trimmed
Sentences(text) == [k \in DOMAIN split_sentences(text) |-> strip(split_sentences(text)[k])]

DateFormats == {"%m/%d/%Y", "%Y-%m-%d"}

\* the valid dates written in sentence in the format fmt, as <<start, end>>:
\* MM/DD/YYYY with a month and a day of one or two digits, YYYY-MM-DD of ten
\* characters; standing between word boundaries; a day that exists
DateTokens(sentence, fmt) ==
    {t \in (1..Len(sentence)) \X (1..Len(sentence)) :
        /\ t[1] <= t[2]
        /\ t[2] - t[1] < 10
        /\ fmt = "%Y-%m-%d" => t[2] - t[1] = 9
        /\ t[1] = 1 \/ sentence[t[1] - 1] \notin WordChar
        /\ t[2] = Len(sentence) \/ sentence[t[2] + 1] \notin WordChar
        /\ strptime(SubSeq(sentence, t[1], t[2]), fmt).ok}

\* the date a token of sentence stands for
DateOf(sentence, t, fmt) == strptime(SubSeq(sentence, t[1], t[2]), fmt).date

\* events has an event of sentence with the date of token t
HasEvent(events, sentence, t, fmt) ==
    \E i \in DOMAIN events :
        /\ events[i].description = sentence
        /\ events[i].date = DateOf(sentence, t, fmt)

\* events are in date order, and each is the trimmed sentence of at least 20
\* characters in which its date is written
OrderedAndDescribed(text, events) ==
    /\ \A i \in DOMAIN events, j \in DOMAIN events :
         i < j => DateLE(events[i].date, events[j].date)
    /\ \A i \in DOMAIN events :
         \E k \in DOMAIN Sentences(text), fmt \in DateFormats :
             /\ Len(Sentences(text)[k]) >= 20
             /\ events[i].description = Sentences(text)[k]
             /\ \E t \in DateTokens(Sentences(text)[k], fmt) :
                    events[i].date = DateOf(Sentences(text)[k], t, fmt)

\* C28: extract_timeline_events_basic returns its events in non-decreasing
\* date order, each event's description is the trimmed sentence in which its
\* date was matched, and every sentence of at least 20 characters that
\* contains a valid MM/DD/YYYY or YYYY-MM-DD date yields an event with that
\* date.
C28_EveryDateYieldsEvent ==
    \A d \in DOMAIN documents :
        LET text == TextOf(d)
            events == extract_timeline_events_basic(text)
        IN
        /\ OrderedAndDescribed(text, events)
        /\ \A k \in DOMAIN Sentences(text), fmt \in DateFormats :
             Len(Sentences(text)[k]) >= 20 =>
                \A t \in DateTokens(Sentences(text)[k], fmt) :
                    HasEvent(events, Sentences(text)[k], t, fmt)

\* the sentences of at least 20 characters and the formats in which they
\* hold a valid date
Dated(text) ==
    {p \in (DOMAIN Sentences(text)) \X DateFormats :
        /\ Len(Sentences(text)[p[1]]) >= 20
        /\ DateTokens(Sentences(text)[p[1]], p[2]) # {}}

\* the first valid date of the format in the sentence
FirstToken(sentence, fmt) ==
    CHOOSE t \in DateTokens(sentence, fmt) :
        \A u \in DateTokens(sentence, fmt) : t[1] <= u[1]

\* C28, amended: extract_timeline_events_basic returns its events in
\* non-decreasing date order, each event's description is the trimmed
\* sentence in which its date was matched, and every sentence of at least 20
\* characters yields one event for the first valid MM/DD/YYYY date and one
\* for the first valid YYYY-MM-DD date written in it between word
\* boundaries, and none for a later date of the same format.
C28_FirstDateYieldsEvent ==
    \A d \in DOMAIN documents :
        LET text == TextOf(d)
            events == extract_timeline_events_basic(text)
        IN
        /\ OrderedAndDescribed(text, events)
        /\ \A p \in Dated(text) :
             HasEvent(events, Sentences(text)[p[1]],
                      FirstToken(Sentences(text)[p[1]], p[2]), p[2])
        /\ Len(events) = Cardinality(Dated(text))

\* a stored timeline of two events whose dates stand in the text in the
\* other order
C28_Witness ==
    \E i \in DOMAIN document_timelines, j \in DOMAIN document_timelines :
        LET text == TextOf(document_timelines[i].document_id)
            first == Occurrences(text, document_timelines[i].event_description)
            second == Occurrences(text, document_timelines[j].event_description)
        IN
        /\ i < j
        /\ document_timelines[i].document_id = document_timelines[j].document_id
        /\ document_timelines[i].event_date # document_timelines[j].event_date
        /\ DateLE(document_timelines[i].event_date, document_timelines[j].event_date)
        /\ \E a \in first, b \in second : b < a

---------------------------------------------------------------------------
(* C29 *)

\* the number of characters of text that are not blank
NonBlank(text) == Cardinality({i \in DOMAIN text : text[i] \notin Space})

\* where the pieces between runs of . ! ? start, and where the piece that
\* starts at i ends
PieceStarts(text) ==
    {i \in DOMAIN text :
        text[i] \notin SentenceEnd /\ (i = 1 \/ text[i - 1] \in SentenceEnd)}

PieceEnd(text, i) ==
    Min({j \in i..Len(text) : j = Len(text) \/ text[j + 1] \in SentenceEnd})

Fragment(text, i) == strip(SubSeq(text, i, PieceEnd(text, i)))

\* the starts of the fragments: the trimmed pieces longer than 20 characters
FragmentStarts(text) == {i \in PieceStarts(text) : Len(Fragment(text, i)) > 20}

\* the fragments with a keyword of the allowlist, in any case
KeyStarts(text) ==
    {i \in FragmentStarts(text) :
        \E k \in DOMAIN key_terms : Contains(lower(Fragment(text, i)), key_terms[k])}

\* the first at most m of the fragments that start in starts, in the order
\* of the text
FirstOf(text, starts, m) ==
    LET n == IF Cardinality(starts) < m THEN Cardinality(starts) ELSE m IN
    [k \in 1..n |->
        Fragment(text, CHOOSE i \in starts : Cardinality({j \in starts : j <= i}) = k)]

\* C29: for a text of at least 100 characters that are not blank, cut at
\* runs of . ! ? into trimmed fragments longer than 20 characters,
\* generate_summary_basic returns the first min(3, n) fragments for brief,
\* the first min(10, n) for detailed, and for key_points the first at most
\* 5 fragments with an allowlisted keyword, or the first 3 fragments when
\* none has one; the fragments are joined in the order of the text.
C29_SummaryTakesFirstFragments ==
    \A d \in DOMAIN documents :
        LET text == TextOf(d)
            all == FragmentStarts(text)
            key == KeyStarts(text)
        IN
        NonBlank(text) >= 100 =>
           /\ generate_summary_basic(text, "brief")
                 = join(FirstOf(text, all, 3)) \o <<".">>
           /\ generate_summary_basic(text, "detailed")
                 = join(FirstOf(text, all, 10)) \o <<".">>
           /\ generate_summary_basic(text, "key_points")
                 = IF key # {} THEN join(FirstOf(text, key, 5)) \o <<".">>
                   ELSE join(FirstOf(text, all, 3)) \o <<".">>

\* stored summaries of a text with more than ten fragments and more than
\* five with a keyword: the detailed one ends before the last fragment, the
\* key_points one holds five
C29_Witness ==
    \E i \in DOMAIN document_summaries, j \in DOMAIN document_summaries :
        LET text == TextOf(document_summaries[i].document_id) IN
        /\ document_summaries[j].document_id = document_summaries[i].document_id
        /\ NonBlank(text) >= 100
        /\ Cardinality(FragmentStarts(text)) > 10
        /\ Cardinality(KeyStarts(text)) > 5
        /\ document_summaries[i].summary_type = "detailed"
        /\ document_summaries[i].content = join(FirstOf(text, FragmentStarts(text), 10)) \o <<".">>
        /\ document_summaries[j].summary_type = "key_points"
        /\ document_summaries[j].content = join(FirstOf(text, KeyStarts(text), 5)) \o <<".">>

---------------------------------------------------------------------------
(* C30 *)

\* the number of words of the list that occur in the lowercased content
Occurring(words, content) ==
    Cardinality({i \in DOMAIN words : Occurrences(lower(content), words[i]) # {}})

\* 2 * diff, in tenths, kept within -8 and 8
Clamped(diff) == IF 2 * diff > 8 THEN 8 ELSE IF 2 * diff < -8 THEN -8 ELSE 2 * diff

\* the result for content is what the claim says
Labelled(content, result) ==
    LET p == Occurring(positive_words, content)
        n == Occurring(negative_words, content)
    IN  /\ result.sentiment = "positive" <=> p > n
        /\ result.sentiment = "negative" <=> n > p
        /\ result.sentiment = "neutral" <=> p = n
        /\ result.sentiment = "neutral" => result.sentiment_score = 0
        /\ result.sentiment_score = Clamped(p - n)
        /\ result.sentiment = "positive" <=> result.sentiment_score > 0
        /\ result.sentiment = "negative" <=> result.sentiment_score < 0

\* C30: analyze_chat_content_basic labels the content positive exactly when
\* more positive-list words than negative-list words occur in the
\* lowercased content, negative exactly when the reverse holds, and neutral
\* with score 0 otherwise; the score is 0.2 times (positive count minus
\* negative count) clamped to [-0.8, 0.8], so its sign agrees with the label.
C30_SentimentFollowsCounts ==
    /\ \A content \in ChatContents :
         Labelled(content, analyze_chat_content_basic(content))
    /\ \A i \in DOMAIN chat_analyses :
         /\ Labelled(chat_analyses[i].chat_content, chat_analyses[i].analysis_result)
         /\ chat_analyses[i].sentiment_score = chat_analyses[i].analysis_result.sentiment_score

\* stored analyses with a score at the upper bound, one at the lower bound,
\* and a neutral one of a content in which listed words occur
C30_Witness ==
    \E i \in DOMAIN chat_analyses, j \in DOMAIN chat_analyses, k \in DOMAIN chat_analyses :
        /\ chat_analyses[i].sentiment_score = 8
        /\ Occurring(positive_words, chat_analyses[i].chat_content) > 4
        /\ chat_analyses[j].sentiment_score = -8
        /\ chat_analyses[k].analysis_result.sentiment = "neutral"
        /\ Occurring(positive_words, chat_analyses[k].chat_content) > 0

====
